---- MODULE Spec2Model ----
(***************************************************************************)
(* Pixelix (esp-rgb-led-matrix): the task decoupling queue between the     *)
(* web server task(s) and the main loop, the deferred web requests that    *)
(* travel through it, the plugin lock of the sunrise plugin and the        *)
(* firmware/filesystem upload handler.                                     *)
(*                                                                         *)
(* Spec        web request pipeline: safeReqHandler / safeUploadHandler    *)
(*             -> TaskDecoupler -> Pages::process                          *)
(* SpecPlugin  SunrisePlugin lock()/unlock() users: main loop, web server  *)
(*             task, HTTP client response callback                         *)
(* SpecLoop    the main loop: the plugin calls of SpecPlugin and the queue *)
(*             drain of Pages::process                                     *)
(* SpecUpload  uploadHandler chunk by chunk                                *)
(* SpecQueues  the two TaskDecoupler instances (pages, captive portal),    *)
(*             call by call                                                *)
(* SpecRestart SpecPlugin without fairness, over restarts of the device    *)
(* SpecChunks  one upload from safeUploadHandler through WebUploadReq to   *)
(*             uploadHandler                                               *)
(* SpecSettings the tasks that open the settings store or a file           *)
(* SpecHostname isValidHostname, string by string                          *)
(* SpecStore   one POST to the settings page: storeSetting per argument    *)
(* SpecWidgets bitmap widgets: construction, copy, set, destruction        *)
(* SpecUpdate  the update manager and the callbacks of ArduinoOTA          *)
(* SpecSystem  the system state machine, tick by tick                      *)
(* SpecSlots   the slots of the display and their scheduler                *)
(* SpecClients uploads of several clients at the same time                 *)
(* SpecCalls   sequences of calls on one plugin instance                   *)
(* SpecUse     the functions that open and close the settings store        *)
(* SpecPercent the progress percentage of an update, call by call          *)
(* SpecAssign  assignment of one deferred request to another               *)
(***************************************************************************)
EXTENDS Integers, Sequences, FiniteSets, TLC

(***************************************************************************)
(* Bounds of the model.                                                    *)
(***************************************************************************)
\* Largest queue capacity handed to TaskDecoupler::init.
MaxCapacity == 2
\* Number of web requests that arrive in one behaviour.
MaxReq == 3
\* Largest number of chunks of one upload.
MaxChunks == 3
\* Number of items handed to the two queues in one behaviour.
MaxItems == 3
\* Number of restarts of the device in one behaviour.
MaxBoots == 1

(***************************************************************************)
(* Program constants.                                                      *)
(***************************************************************************)
\* TaskDecoupler::WAIT_TIME, in ticks.
WAIT_TIME == 100
\* Pages.cpp: REQ_QUEUE_MAX_ITEMS.
REQ_QUEUE_MAX_ITEMS == 20

\* nullptr as a WebReq*.
NullReq == 0

\* The tasks that call safeReqHandler / safeUploadHandler.
Producers == {"async_tcp", "async_ws"}
\* The task that runs loop(), and with it Pages::process.
MainLoop == "loopTask"
QueueTasks == Producers \cup {MainLoop}

ReqIds == 1..MaxReq

VARIABLES
    m_hQueue,     \* TaskDecoupler::m_hQueue: [valid, cap, items]
    started,      \* Pages::init has run
    nextReq,      \* number of web requests received so far
    heap,         \* WebReq object of request id: "unalloc", "live", "freed"
    kind,         \* request id -> "none", "page", "upload"
    calls,        \* request id -> number of WebReq::call invocations
    frees,        \* request id -> number of deletes
    replies,      \* request id -> set of answers sent to the client
    useAfterFree, \* a call or delete hit an object that was not live
    prodPc,       \* producer task -> "idle", "addItemWait", "addItemReady"
    prodItem,     \* producer task -> the item of its pending addItem
    mainPc,       \* "idle", "getItemWait", "getItemReady", "call", "delete"
    msg,          \* Pages::process: WebReq* msg
    waited,       \* task -> ticks spent blocked in xQueueSend / xQueueReceive
    sent,         \* items of the successful addItem calls, in order
    received,     \* items of the successful getItem calls, in order
    getFailedAt   \* Len(sent) when getItem last timed out, -1 if never

webVars == <<m_hQueue, started, nextReq, heap, kind, calls, frees, replies,
             useAfterFree, prodPc, prodItem, mainPc, msg, waited, sent,
             received, getFailedAt>>

\* The tasks that call into the sunrise plugin: loop(), the web server task
\* that runs webReqHandler, the task that runs the HTTP client's response
\* callback.
WebTask == "async_tcp"
HttpTask == "http_rsp"
PluginTasks == {MainLoop, WebTask, HttpTask}
\* No task, as the holder of the mutex.
NoTask == "none"
\* Longitude / latitude pairs a client may set; the first is the default.
DefaultLocation == [longitude |-> "2.295", latitude |-> "48.858"]
Locations == {DefaultLocation, [longitude |-> "8.0", latitude |-> "47.0"]}
\* The configuration file of the plugin does not exist.
NoFile == [longitude |-> "", latitude |-> ""]
\* m_relevantResponsePart: empty, or "sunrise / sunset" of a response.
Responses == {"06:00 / 18:00"}

VARIABLES
    plugin,        \* life cycle: "none", "installed", "started", "stopped"
    m_xMutex,      \* "nullptr" or "created"
    mutexHolder,   \* the task that holds m_xMutex, or NoTask
    mutexCount,    \* recursive take count of the holder
    method,        \* task -> the plugin method it executes, or "none"
    at,            \* task -> "idle", "flag", "lock", "body", "unlock"
    arg,           \* location argument of the web task's setLocation
    m_location,    \* m_longitude, m_latitude
    m_relevantResponsePart,
    m_textWidget,  \* format string of the text widget
    m_iconCanvas,  \* FALSE: nullptr
    m_textCanvas,  \* FALSE: nullptr
    m_requestTimer,          \* "stopped", "short", "long"
    m_httpResponseReceived,
    configFile,    \* NoFile or the location stored in the configuration file
    requestPending \* a HTTP GET is in flight

lockVars == <<mutexHolder, mutexCount>>
ctlVars == <<method, at, arg>>
fieldVars == <<m_location, m_relevantResponsePart, m_textWidget, m_iconCanvas,
               m_textCanvas, m_requestTimer, m_httpResponseReceived>>
envVars == <<configFile, requestPending>>
pluginVars == <<plugin, m_xMutex, lockVars, ctlVars, fieldVars, envVars>>

\* Pages.cpp: FILESYSTEM_FILENAME; any other name is a firmware image.
FILESYSTEM_FILENAME == "spiffs.bin"
Filenames == {FILESYSTEM_FILENAME, "firmware.bin"}

VARIABLES
    gIsUploadError,   \* Pages.cpp: gIsUploadError
    updateRunning,    \* Update.isRunning()
    updateWritten,    \* chunks written by Update.write since Update.begin
    spiffsMounted,    \* the filesystem is mounted
    progressShown,    \* UpdateMgr shows the update progress
    uploadPhase,      \* "idle", "uploading", "finished", "answered"
    uploadIndex,      \* number of chunks of the current upload handled so far
    uploadFile,       \* filename of the current upload
    uploadReplies,    \* answers sent to the client of the current upload
    restartRequested  \* UpdateMgr::reqRestart was called

uploadVars == <<gIsUploadError, updateRunning, updateWritten, spiffsMounted,
                progressShown, uploadPhase, uploadIndex, uploadFile,
                uploadReplies, restartRequested>>

\* The two network surfaces, each with its own gTaskDecoupler.
Surfaces == {"pages", "portal"}
\* CaptivePortal.cpp: REQ_QUEUE_MAX_ITEMS.
PORTAL_REQ_QUEUE_MAX_ITEMS == 5

VARIABLES
    decoupler,     \* surface -> m_hQueue of its gTaskDecoupler
    qItems,        \* number of items handed to addItem so far
    out,           \* surface -> the item variable its getItem writes to
    lastOp,        \* the last TaskDecoupler call, its argument (capacity or item) and result
    discarded,     \* surface -> items that were pending when init destroyed the queue
    rejectedNull,  \* surface -> an addItem failed for want of a queue
    rejectedFull   \* surface -> an addItem failed on a full queue

queueVars == <<decoupler, qItems, out, lastOp, discarded, rejectedNull, rejectedFull>>

VARIABLES
    boots          \* number of restarts of the device so far

\* The payloads of the chunks of an upload, as the bytes of the buffer that
\* the web server hands to the upload callback.
Payloads == {<<1>>, <<2, 3>>}
\* The buffer of the web server after it was used for something else.
Overwritten == <<0, 0>>
\* m_data == nullptr.
NullData == <<>>

VARIABLES
    rxBuffer,      \* the buffer of the web server that data points into
    wireOffset,    \* bytes of the upload received so far: the index of the next chunk
    wireChunks,    \* chunks of the upload received so far
    wireFinal,     \* the final chunk was received
    wireFile,      \* filename of the upload
    chunkQueue,    \* the WebUploadReq objects in the queue of gTaskDecoupler
    requestValid,  \* the AsyncWebServerRequest of the upload still exists
    insufficient,  \* a chunk was answered with 507
    queueFull,     \* a chunk was answered with 507 because addItem found the queue full
    lastCall,      \* arguments of the last call of the upload handler
    bytesWritten   \* bytes given to Update.write and accepted by it

chunkVars == <<rxBuffer, wireOffset, wireChunks, wireFinal, wireFile, chunkQueue,
               requestValid, insufficient, queueFull, lastCall, bytesWritten>>

VARIABLES
    wifiMode,      \* "boot", or the interface the web server serves: "AP", "STA"
    running,       \* per task: the handler it is in and the store it has open
    pending        \* the deferred page requests in the queue of gTaskDecoupler

settingsVars == <<wifiMode, running, pending>>

\* Number of bitmap widgets that are constructed.
MaxWidgets == 2
\* Longest hostname that is tried is MaxHostLen characters long.
MaxHostLen == 4

VARIABLES
    hostname,      \* the string given to isValidHostname
    checked,       \* isValidHostname has returned for hostname
    isValid        \* what it returned

hostnameVars == <<hostname, checked, isValid>>

VARIABLES
    stored,        \* the value of every setting
    before,        \* the values before the last POST
    postReq,       \* the arguments of the last POST to /settings.html
    processed,     \* the settings that storeSetting was called for in it
    rsp            \* the JSON document sent as the answer to it

storeVars == <<stored, before, postReq, processed, rsp>>

VARIABLES
    widgets,       \* the BitmapWidget objects: life cycle and members
    colorHeap,     \* the Color arrays on the heap
    widgetOp       \* the last operation on a widget

widgetVars == <<widgets, colorHeap, widgetOp>>

VARIABLES
    m_isInitialized,   \* UpdateMgr::m_isInitialized
    m_updateIsRunning, \* UpdateMgr::m_updateIsRunning
    m_progressBar,     \* progress shown by UpdateMgr::m_progressBar in percent
    otaState,          \* ArduinoOTA: "idle" or "update" (between onStart and onEnd/onError)
    otaSpiffsMounted,  \* SPIFFS is mounted
    otaWiFiMode,       \* WiFi.getMode()
    connection,        \* "none", "sta" (station connected) or "ap" (soft AP up)
    resets,            \* number of ESP.restart() calls so far
    updStarted,        \* value of resets when onStart ran last, -1 before
    lastCallback       \* the last callback of ArduinoOTA that ran

updateVars ==
    <<m_isInitialized, m_updateIsRunning, m_progressBar, otaState, otaSpiffsMounted,
      otaWiFiMode, connection, resets, updStarted, lastCallback>>

\* Number of ticks of the system state machine in one run of the device.
MaxTicks == 7

VARIABLES
    m_currentState, \* StateMachine: the current state, "none" before the first tick
    m_nextState,    \* StateMachine: the state requested with setState, or "none"
    sysCalls,       \* the calls that the last tick made, in their order
    entryCalls,     \* per state: calls of entry() in this run
    exitCalls,      \* per state: calls of exit() in this run
    processCalls,   \* per state: calls of process() in this run
    sysPath,        \* the states that were entered in this run, in their order
    bootInput,      \* what InitState::process found: button, board
    sysTicks,       \* ticks in this run
    sysBoots        \* restarts of the device so far

systemVars ==
    <<m_currentState, m_nextState, sysCalls, entryCalls, exitCalls, processCalls,
      sysPath, bootInput, sysTicks, sysBoots>>

\* Number of slots of the display.
MaxSlots == 3
\* Number of steps of a fade.
MaxFadeSteps == 2

VARIABLES
    slotState,      \* per slot: "Empty", "Inactive" or "Active"
    selectedSlot,   \* the slot that was made active last, 0 before
    rotationTimer,  \* "stopped", "running" or "expired"
    fade,           \* the running fade: from, to and step, or NoFade
    slotOp,         \* the last operation on the slots
    slotCalls       \* the plugin methods that it called, in their order

slotVars == <<slotState, selectedSlot, rotationTimer, fade, slotOp, slotCalls>>

\* Number of clients that upload at the same time.
MaxClients == 2

VARIABLES
    client,         \* per uploading client: the calls made for its request so far
    fsAccess        \* the last access to the filesystem by another handler

clientVars == <<client, fsAccess>>

VARIABLES
    pluginCall      \* the last call of a sequence of calls on one plugin instance

callVars == <<pluginCall>>

VARIABLES
    settingsUse     \* per task: the function that uses the settings store, where
                    \* it is, and its calls of Settings::open and close so far

useVars == <<settingsUse>>

VARIABLES
    percentCall     \* the last computation of a progress percentage

percentVars == <<percentCall>>

VARIABLES
    reqObjects,     \* two deferred requests of one kind, "none" before they are made
    lastAssign      \* the last assignment: target, source and the objects before it

assignVars == <<reqObjects, lastAssign>>

\* The state of the sequences of calls on single objects.
tailVars == <<callVars, useVars, percentVars, assignVars>>

\* The state that is in coreVars and in notCoreVars: no action further up
\* touches it.
lateVars == <<updateVars, systemVars, slotVars, clientVars, tailVars>>

\* What the actions on lateVars leave alone besides the state of each other.
notLateVars ==
    <<webVars, pluginVars, uploadVars, queueVars, boots, chunkVars, settingsVars,
      hostnameVars, storeVars, widgetVars>>

\* Settings validation, widgets, the system state machine and the update
\* manager.
coreVars == <<hostnameVars, storeVars, widgetVars, lateVars>>

\* The state of the specifications further down.
auxVars == <<queueVars, boots, chunkVars, settingsVars, coreVars>>
\* All but the state of the two TaskDecoupler instances.
notQueueVars == <<webVars, pluginVars, uploadVars, boots, chunkVars, settingsVars, coreVars>>

\* What the actions on hostnames, settings and widgets leave alone besides
\* the state of each other.
notCoreVars ==
    <<webVars, pluginVars, uploadVars, queueVars, boots, chunkVars, settingsVars,
      lateVars>>

vars == <<webVars, pluginVars, uploadVars, auxVars>>

(***************************************************************************)
(* TaskDecoupler<T>                                                        *)
(***************************************************************************)
\* m_hQueue(nullptr)
NullQueue == [valid |-> FALSE, cap |-> 0, items |-> <<>>]

\* xQueueCreate(maxItems, itemSize); ok = FALSE: no memory, returns NULL.
xQueueCreate(maxItems, ok) ==
    IF ok THEN [valid |-> TRUE, cap |-> maxItems, items |-> <<>>]
          ELSE NullQueue

createQueue(h, maxItems, ok) ==
    IF ~h.valid THEN xQueueCreate(maxItems, ok) ELSE h

destroyQueue(h) ==
    IF h.valid THEN NullQueue ELSE h

\* Mutant of init: the queue at hand is not destroyed.
initKeepsOld(h, maxItems, ok) == createQueue(h, maxItems, ok)

\* TaskDecoupler::init
init(h, maxItems, ok) == createQueue(destroyQueue(h), maxItems, ok)

\* Mutant of QueueFull: the check is off by one.
QueueFullOffByOne(h) == Len(h.items) > h.cap

\* uxQueueSpacesAvailable == 0
QueueFull(h) == Len(h.items) >= h.cap

QueueEmpty(h) == Len(h.items) = 0

\* Mutant of QueueSendToBack: xQueueSendToFront.
QueueSendToFront(h, item) == [h EXCEPT !.items = <<item>> \o @]

\* xQueueSend copies the item to the back of the queue.
QueueSendToBack(h, item) == [h EXCEPT !.items = Append(@, item)]

\* xQueueReceive copies the item at the front out ...
QueueFront(h) == Head(h.items)

\* Mutant of QueueRemoveFront: xQueuePeek, the item stays in the queue.
QueuePeek(h) == h

\* ... and removes it.
QueueRemoveFront(h) == [h EXCEPT !.items = Tail(@)]

\* Mutant of WaitExpired: a block time of 0 ticks.
WaitExpiredAtOnce(t) == waited[t] >= 0

\* The block time of xQueueSend / xQueueReceive has expired.
WaitExpired(t) == waited[t] >= WAIT_TIME

(***************************************************************************)
(* Web request pipeline: initial state (after the static constructors).    *)
(***************************************************************************)
Capacities == (1..MaxCapacity) \cup {REQ_QUEUE_MAX_ITEMS}

InitWeb ==
    /\ m_hQueue = NullQueue
    /\ started = FALSE
    /\ nextReq = 0
    /\ heap = [i \in ReqIds |-> "unalloc"]
    /\ kind = [i \in ReqIds |-> "none"]
    /\ calls = [i \in ReqIds |-> 0]
    /\ frees = [i \in ReqIds |-> 0]
    /\ replies = [i \in ReqIds |-> {}]
    /\ useAfterFree = FALSE
    /\ prodPc = [p \in Producers |-> "idle"]
    /\ prodItem = [p \in Producers |-> NullReq]
    /\ mainPc = "idle"
    /\ msg = NullReq
    /\ waited = [t \in QueueTasks |-> 0]
    /\ sent = <<>>
    /\ received = <<>>
    /\ getFailedAt = -1

\* Pages::init: gTaskDecoupler.init(REQ_QUEUE_MAX_ITEMS, sizeof(WebReq*)); the
\* result of init is not looked at. The capacity is init's parameter.
PagesInit ==
    /\ ~started
    /\ \E c \in Capacities, ok \in BOOLEAN :
          m_hQueue' = init(m_hQueue, c, ok)
    /\ started' = TRUE
    /\ UNCHANGED <<nextReq, heap, kind, calls, frees, replies, useAfterFree,
                   prodPc, prodItem, mainPc, msg, waited, sent, received,
                   getFailedAt>>

(***************************************************************************)
(* addItem, called by a producer task p with item id.                      *)
(***************************************************************************)
\* xQueueSend returned pdTRUE: the item is in the queue; a task blocked in
\* xQueueReceive is made ready. addItem returns true and the handler is done.
AddItemSucceed(p, id) ==
    /\ m_hQueue' = QueueSendToBack(m_hQueue, id)
    /\ sent' = Append(sent, id)
    /\ mainPc' = IF mainPc = "getItemWait" THEN "getItemReady" ELSE mainPc
    /\ waited' = [waited EXCEPT ![p] = 0, ![MainLoop] = 0]
    /\ prodPc' = [prodPc EXCEPT ![p] = "idle"]
    /\ prodItem' = [prodItem EXCEPT ![p] = NullReq]
    /\ replies' = replies

\* Mutant of AddItemFail: the client is not answered.
AddItemFailSilent(p, id) ==
    /\ UNCHANGED <<m_hQueue, sent, mainPc, replies>>
    /\ waited' = [waited EXCEPT ![p] = 0]
    /\ prodPc' = [prodPc EXCEPT ![p] = "idle"]
    /\ prodItem' = [prodItem EXCEPT ![p] = NullReq]

\* addItem returned false: request->send(STATUS_CODE_INSUFFICIENT_STORAGE).
\* The item stays allocated.
AddItemFail(p, id) ==
    /\ UNCHANGED <<m_hQueue, sent, mainPc>>
    /\ waited' = [waited EXCEPT ![p] = 0]
    /\ prodPc' = [prodPc EXCEPT ![p] = "idle"]
    /\ prodItem' = [prodItem EXCEPT ![p] = NullReq]
    /\ replies' = [replies EXCEPT ![id] = @ \cup {"507"}]

\* The queue is full: the task blocks in xQueueSend.
AddItemBlock(p, id) ==
    /\ UNCHANGED <<m_hQueue, sent, mainPc, waited, replies>>
    /\ prodPc' = [prodPc EXCEPT ![p] = "addItemWait"]
    /\ prodItem' = [prodItem EXCEPT ![p] = id]

addItem(p, id) ==
    IF ~m_hQueue.valid THEN AddItemFail(p, id)
    ELSE IF ~QueueFull(m_hQueue) THEN AddItemSucceed(p, id)
    ELSE AddItemBlock(p, id)

\* Mutant of QueueIn: the return after requestAuthentication is missing, the
\* request without authentication is queued all the same.
QueueInNoReturn(p, id, k, authOK, allocOK) ==
    /\ nextReq' = id
    /\ kind' = [kind EXCEPT ![id] = k]
    /\ IF ~authOK
       THEN /\ replies' = [replies EXCEPT ![id] = @ \cup {"401"}]
            /\ heap' = [heap EXCEPT ![id] = "live"]
            /\ IF m_hQueue.valid /\ ~QueueFull(m_hQueue)
               THEN m_hQueue' = QueueSendToBack(m_hQueue, id) /\ sent' = Append(sent, id)
               ELSE UNCHANGED <<m_hQueue, sent>>
            /\ UNCHANGED <<mainPc, waited, prodPc, prodItem>>
       ELSE IF ~allocOK
       THEN /\ replies' = [replies EXCEPT ![id] = @ \cup {"507"}]
            /\ UNCHANGED <<m_hQueue, sent, mainPc, waited, prodPc, prodItem,
                           heap>>
       ELSE /\ heap' = [heap EXCEPT ![id] = "live"]
            /\ addItem(p, id)
    /\ UNCHANGED <<started, calls, frees, useAfterFree, msg, received,
                   getFailedAt>>

\* The common body of safeReqHandler and safeUploadHandler for request
\* number id of kind k; authOK: request->authenticate(..), allocOK: new.
QueueIn(p, id, k, authOK, allocOK) ==
    /\ nextReq' = id
    /\ kind' = [kind EXCEPT ![id] = k]
    /\ IF ~authOK
       THEN /\ replies' = [replies EXCEPT ![id] = @ \cup {"401"}]
            /\ UNCHANGED <<m_hQueue, sent, mainPc, waited, prodPc, prodItem,
                           heap>>
       ELSE IF ~allocOK
       THEN /\ replies' = [replies EXCEPT ![id] = @ \cup {"507"}]
            /\ UNCHANGED <<m_hQueue, sent, mainPc, waited, prodPc, prodItem,
                           heap>>
       ELSE /\ heap' = [heap EXCEPT ![id] = "live"]
            /\ addItem(p, id)
    /\ UNCHANGED <<started, calls, frees, useAfterFree, msg, received,
                   getFailedAt>>

safeReqHandler(p) ==
    /\ started /\ prodPc[p] = "idle" /\ nextReq < MaxReq
    /\ \E authOK \in BOOLEAN, allocOK \in BOOLEAN :
          QueueIn(p, nextReq + 1, "page", authOK, allocOK)

safeUploadHandler(p) ==
    /\ started /\ prodPc[p] = "idle" /\ nextReq < MaxReq
    /\ \E authOK \in BOOLEAN, allocOK \in BOOLEAN :
          QueueIn(p, nextReq + 1, "upload", authOK, allocOK)

\* A producer made ready by xQueueReceive looks at the queue again.
AddItemRetry(p) ==
    /\ prodPc[p] = "addItemReady"
    /\ addItem(p, prodItem[p])
    /\ UNCHANGED <<started, nextReq, heap, kind, calls, frees, useAfterFree,
                   msg, received, getFailedAt>>

\* The block time of xQueueSend is over.
AddItemTimeout(p) ==
    /\ prodPc[p] = "addItemWait"
    /\ WaitExpired(p)
    /\ IF QueueFull(m_hQueue) THEN AddItemFail(p, prodItem[p])
                              ELSE AddItemSucceed(p, prodItem[p])
    /\ UNCHANGED <<started, nextReq, heap, kind, calls, frees, useAfterFree,
                   msg, received, getFailedAt>>

(***************************************************************************)
(* getItem and Pages::process, run by the main loop.                       *)
(***************************************************************************)
BlockedProducers == {p \in Producers : prodPc[p] = "addItemWait"}

\* xQueueReceive returned pdTRUE: the front item is copied to msg and removed;
\* one task blocked in xQueueSend, if any, is made ready.
GetItemSucceed ==
    /\ msg' = QueueFront(m_hQueue)
    /\ m_hQueue' = QueueRemoveFront(m_hQueue)
    /\ received' = Append(received, QueueFront(m_hQueue))
    /\ IF BlockedProducers = {}
       THEN prodPc' = prodPc
       ELSE \E p \in BlockedProducers :
               prodPc' = [prodPc EXCEPT ![p] = "addItemReady"]
    /\ waited' = [waited EXCEPT ![MainLoop] = 0]
    /\ mainPc' = "call"
    /\ UNCHANGED getFailedAt

\* getItem returned false: nothing is written to the caller's item, and
\* Pages::process returns.
GetItemFail ==
    /\ msg' = msg
    /\ UNCHANGED <<m_hQueue, received, prodPc>>
    /\ waited' = [waited EXCEPT ![MainLoop] = 0]
    /\ mainPc' = "idle"
    /\ getFailedAt' = IF m_hQueue.valid THEN Len(sent) ELSE getFailedAt

\* The queue is empty: the main loop blocks in xQueueReceive.
GetItemBlock ==
    /\ UNCHANGED <<msg, m_hQueue, received, prodPc, waited, getFailedAt>>
    /\ mainPc' = "getItemWait"

getItem ==
    IF ~m_hQueue.valid THEN GetItemFail
    ELSE IF ~QueueEmpty(m_hQueue) THEN GetItemSucceed
    ELSE GetItemBlock

\* Pages::process: WebReq* msg = nullptr; gTaskDecoupler.getItem(msg)
process ==
    /\ started /\ mainPc = "idle"
    /\ msg = NullReq
    /\ getItem
    /\ UNCHANGED <<started, nextReq, heap, kind, calls, frees, replies,
                   useAfterFree, prodItem, sent>>

\* The main loop was made ready by xQueueSend and takes the item.
GetItemRetry ==
    /\ mainPc = "getItemReady"
    /\ getItem
    /\ UNCHANGED <<started, nextReq, heap, kind, calls, frees, replies,
                   useAfterFree, prodItem, sent>>

\* The block time of xQueueReceive is over.
GetItemTimeout ==
    /\ mainPc = "getItemWait"
    /\ WaitExpired(MainLoop)
    /\ IF QueueEmpty(m_hQueue) THEN GetItemFail ELSE GetItemSucceed
    /\ UNCHANGED <<started, nextReq, heap, kind, calls, frees, replies,
                   useAfterFree, prodItem, sent>>

\* What a deferred handler may answer.
HandlerAnswers == {"ok", "error"}

\* WebPageReq::call / WebUploadReq::call on the object msg points to: the
\* handler runs and answers the client.
call(id, answer) ==
    /\ calls' = [calls EXCEPT ![id] = @ + 1]
    /\ replies' = [replies EXCEPT ![id] = @ \cup {answer}]
    /\ useAfterFree' = (useAfterFree \/ heap[id] # "live")

\* Pages::process: if (nullptr != msg) { msg->call(); ...
processCall ==
    /\ mainPc = "call"
    /\ IF msg # NullReq
       THEN /\ \E a \in HandlerAnswers : call(msg, a)
            /\ mainPc' = "delete"
            /\ msg' = msg
       ELSE /\ UNCHANGED <<calls, replies, useAfterFree>>
            /\ mainPc' = "idle"
            /\ msg' = NullReq
    /\ UNCHANGED <<m_hQueue, started, nextReq, heap, kind, frees, prodPc,
                   prodItem, waited, sent, received, getFailedAt>>

\* Pages::process: ... delete msg; }
processDelete ==
    /\ mainPc = "delete"
    /\ frees' = [frees EXCEPT ![msg] = @ + 1]
    /\ useAfterFree' = (useAfterFree \/ heap[msg] # "live")
    /\ heap' = [heap EXCEPT ![msg] = "freed"]
    /\ mainPc' = "idle"
    /\ msg' = NullReq
    /\ UNCHANGED <<m_hQueue, started, nextReq, kind, calls, replies, prodPc,
                   prodItem, waited, sent, received, getFailedAt>>

(***************************************************************************)
(* Time. The tick count advances to the next moment at which a block time  *)
(* expires: every blocked task has then waited that much longer. A task    *)
(* made ready runs before time goes on, and a wait whose block time has    *)
(* expired ends before time goes on.                                       *)
(***************************************************************************)
Blocked(t) ==
    IF t = MainLoop THEN mainPc = "getItemWait" ELSE prodPc[t] = "addItemWait"

Ready(t) ==
    IF t = MainLoop THEN mainPc = "getItemReady" ELSE prodPc[t] = "addItemReady"

\* Ticks until the first of the blocked tasks has waited WAIT_TIME.
TicksToExpiry ==
    LET left == {WAIT_TIME - waited[t] : t \in {u \in QueueTasks : Blocked(u)}}
    IN  CHOOSE d \in left : \A e \in left : d <= e

TimePasses ==
    /\ \E t \in QueueTasks : Blocked(t)
    /\ \A t \in QueueTasks : ~Ready(t)
    /\ \A t \in QueueTasks : Blocked(t) => ~WaitExpired(t)
    /\ waited' = [t \in QueueTasks |->
                    IF Blocked(t) THEN waited[t] + TicksToExpiry
                                  ELSE waited[t]]
    /\ UNCHANGED <<m_hQueue, started, nextReq, heap, kind, calls, frees,
                   replies, useAfterFree, prodPc, prodItem, mainPc, msg, sent,
                   received, getFailedAt>>

NextWeb ==
    \/ PagesInit
    \/ \E p \in Producers : safeReqHandler(p)
    \/ \E p \in Producers : safeUploadHandler(p)
    \/ \E p \in Producers : AddItemRetry(p)
    \/ \E p \in Producers : AddItemTimeout(p)
    \/ process
    \/ GetItemRetry
    \/ GetItemTimeout
    \/ processCall
    \/ processDelete
    \/ TimePasses

\* The elements of a sequence, and a sequence without repetition.
Range(f) == {f[i] : i \in DOMAIN f}

NoDuplicates(f) == \A i, j \in DOMAIN f : f[i] = f[j] => i = j

(***************************************************************************)
(* The two TaskDecoupler instances, call by call.                          *)
(***************************************************************************)
NoOp == [surface |-> "none", op |-> "none", ok |-> FALSE, ticks |-> 0, arg |-> NullReq]

InitQueues ==
    /\ decoupler = [s \in Surfaces |-> NullQueue]
    /\ qItems = 0
    /\ out = [s \in Surfaces |-> NullReq]
    /\ lastOp = NoOp
    /\ discarded = [s \in Surfaces |-> {}]
    /\ rejectedNull = [s \in Surfaces |-> FALSE]
    /\ rejectedFull = [s \in Surfaces |-> FALSE]

NoCall == [index |-> 0, data |-> NullData, len |-> 0, final |-> FALSE,
           src |-> NullData, valid |-> TRUE, called |-> FALSE]

InitChunks ==
    /\ rxBuffer = Overwritten
    /\ wireOffset = 0
    /\ wireChunks = 0
    /\ wireFinal = FALSE
    /\ wireFile = FILESYSTEM_FILENAME
    /\ chunkQueue = <<>>
    /\ requestValid = TRUE
    /\ insufficient = FALSE
    /\ queueFull = FALSE
    /\ lastCall = NoCall
    /\ bytesWritten = 0

\* A task that is in no handler.
Idle == [handler |-> "none", access |-> "none", deferred |-> FALSE]

InitSettings ==
    /\ wifiMode = "boot"
    /\ running = [t \in PluginTasks |-> Idle]
    /\ pending = <<>>

InitHostname ==
    /\ hostname = <<>>
    /\ checked = FALSE
    /\ isValid = FALSE

\* The settings of each type that a POST can set, in the order of
\* Settings::getList(); the limits are those of the KeyValue objects.
SettingsList ==
    << [key |-> "hostname", type |-> "STRING", min |-> 1, max |-> MaxHostLen - 1],
       [key |-> "bool", type |-> "BOOL", min |-> 0, max |-> 1],
       [key |-> "uint8", type |-> "UINT8", min |-> 1, max |-> 9],
       [key |-> "int32", type |-> "INT32", min |-> -9, max |-> 9],
       [key |-> "json", type |-> "JSON", min |-> 1, max |-> 2],
       [key |-> "other", type |-> "UNKNOWN", min |-> 0, max |-> 0] >>

KEY_VALUE_PAIR_NUM == Len(SettingsList)

Keys == {SettingsList[i].key : i \in 1..KEY_VALUE_PAIR_NUM}

DefaultSettings ==
    [hostname |-> <<"Z">>, bool |-> FALSE, uint8 |-> 1, int32 |-> 0,
     json |-> <<"a">>, other |-> <<>>]

NoRequest ==
    [present |-> {},
     args |-> [hostname |-> <<>>, bool |-> "", uint8 |-> <<>>, int32 |-> <<>>,
               json |-> <<>>, other |-> <<>>]]

NoResponse == [status |-> 0, error |-> "", sent |-> FALSE]

InitStore ==
    /\ stored = DefaultSettings
    /\ before = DefaultSettings
    /\ postReq = NoRequest
    /\ processed = {}
    /\ rsp = NoResponse

WidgetIds == 1..MaxWidgets
\* One array per widget and one more for the moment in which a widget gets
\* a new array before the old one is freed.
BufferIds == 1..(MaxWidgets + 1)
\* m_buffer == nullptr
NullBuffer == 0

NoWidget ==
    [life |-> "none", m_buffer |-> NullBuffer, m_bufferSize |-> 0,
     m_width |-> 0, m_height |-> 0]

FreeBuffer == [allocated |-> FALSE, data |-> <<>>]

NoWidgetOp == [op |-> "none", src |-> 0, dst |-> 0, ok |-> FALSE]

InitWidgets ==
    /\ widgets = [w \in WidgetIds |-> NoWidget]
    /\ colorHeap = [b \in BufferIds |-> FreeBuffer]
    /\ widgetOp = NoWidgetOp

NoCallback == [fn |-> "none", boot |-> 0, running |-> FALSE, error |-> "none"]

\* UpdateMgr::UpdateMgr() and the device right after power up.
InitUpdate ==
    /\ m_isInitialized = FALSE
    /\ m_updateIsRunning = FALSE
    /\ m_progressBar = 0
    /\ otaState = "idle"
    /\ otaSpiffsMounted = TRUE
    /\ otaWiFiMode = "WIFI_MODE_NULL"
    /\ connection = "none"
    /\ resets = 0
    /\ updStarted = -1
    /\ lastCallback = NoCallback

SysStates == {"Init", "ProvisionAP", "ConnectingSTA", "Running", "Updating", "Error"}

NoBootInput == [read |-> FALSE, button |-> FALSE, initOk |-> FALSE]

\* The state machine as it is constructed: no state is current, the
\* initialization state is the one to enter with the first tick.
NewStateMachine ==
    [cur |-> "none", next |-> "Init", calls |-> <<>>,
     entered |-> [s \in SysStates |-> 0],
     exited |-> [s \in SysStates |-> 0],
     processed |-> [s \in SysStates |-> 0],
     path |-> <<>>, boot |-> NoBootInput]

InitSystem ==
    /\ m_currentState = NewStateMachine.cur
    /\ m_nextState = NewStateMachine.next
    /\ sysCalls = NewStateMachine.calls
    /\ entryCalls = NewStateMachine.entered
    /\ exitCalls = NewStateMachine.exited
    /\ processCalls = NewStateMachine.processed
    /\ sysPath = NewStateMachine.path
    /\ bootInput = NewStateMachine.boot
    /\ sysTicks = 0
    /\ sysBoots = 0

Slots == 1..MaxSlots

NoFade == [from |-> 0, to |-> 0, step |-> 0]

\* The display before a plugin is installed.
InitSlots ==
    /\ slotState = [s \in Slots |-> "Empty"]
    /\ selectedSlot = 0
    /\ rotationTimer = "stopped"
    /\ fade = NoFade
    /\ slotOp = "none"
    /\ slotCalls = <<>>

Clients == 1..MaxClients

\* A client whose upload has not reached the handler yet.
NoUpload ==
    [index |-> 0, file |-> FILESYSTEM_FILENAME, done |-> FALSE, paged |-> FALSE,
     failed |-> FALSE, sends |-> 0, restart |-> FALSE]

NoAccess == [by |-> "none", mounted |-> TRUE]

InitClients ==
    /\ client = [c \in Clients |-> NoUpload]
    /\ fsAccess = NoAccess

\* No call has been made: the plugin has its default location.
NoPluginCall ==
    [op |-> "none", set |-> DefaultLocation, result |-> NoFile,
     changed |-> FALSE, wrote |-> FALSE, expired |-> FALSE, request |-> FALSE]

InitCalls == pluginCall = NoPluginCall

\* The task is in no function that uses the settings store.
NoUse ==
    [fn |-> "none", pc |-> "idle", index |-> 0, isError |-> FALSE,
     opens |-> 0, closes |-> 0, failed |-> FALSE]

InitUse == settingsUse = [t \in PluginTasks |-> NoUse]

\* No percentage has been computed.
NoPercent ==
    [fn |-> "none", progress |-> 0, total |-> 0, overflow |-> FALSE,
     divByZero |-> FALSE, percent |-> 0, shown |-> 0]

InitPercent == percentCall = NoPercent

NoAssign == [op |-> "none", dst |-> "a", src |-> "a", before |-> "none", allocOk |-> TRUE]

InitAssign ==
    /\ reqObjects = "none"
    /\ lastAssign = NoAssign

InitTail == InitCalls /\ InitUse /\ InitPercent /\ InitAssign

InitLate == InitUpdate /\ InitSystem /\ InitSlots /\ InitClients /\ InitTail

InitCore == InitHostname /\ InitStore /\ InitWidgets /\ InitLate

InitAux == InitQueues /\ boots = 0 /\ InitChunks /\ InitSettings /\ InitCore

\* Mutant of DecouplerOf: one gTaskDecoupler for both surfaces.
SharedDecoupler(s) == "pages"

\* Pages.cpp and CaptivePortal.cpp each define a static gTaskDecoupler.
DecouplerOf(s) == s

\* The capacities init is called with.
CapacitiesOf(s) ==
    (1..MaxCapacity) \cup
        {IF s = "pages" THEN REQ_QUEUE_MAX_ITEMS ELSE PORTAL_REQ_QUEUE_MAX_ITEMS}

\* Mutant of addItemResult: no check for a missing queue, which is waited
\* for like a full one.
addItemNoNullCheck(h, item) ==
    IF h.valid /\ ~QueueFull(h)
    THEN [ok |-> TRUE, q |-> QueueSendToBack(h, item), ticks |-> 0]
    ELSE [ok |-> FALSE, q |-> h, ticks |-> WAIT_TIME]

\* TaskDecoupler::addItem as one call: what it returns, the queue after it
\* and the ticks it waited. On a full queue it is the call during which no
\* getItem made room.
addItemResult(h, item) ==
    IF ~h.valid
    THEN [ok |-> FALSE, q |-> h, ticks |-> 0]
    ELSE IF ~QueueFull(h)
    THEN [ok |-> TRUE, q |-> QueueSendToBack(h, item), ticks |-> 0]
    ELSE [ok |-> FALSE, q |-> h, ticks |-> WAIT_TIME]

\* TaskDecoupler::getItem as one call; item is what the caller's variable
\* holds after it. On an empty queue it is the call during which no addItem
\* came.
getItemResult(h, item) ==
    IF ~h.valid
    THEN [ok |-> FALSE, q |-> h, ticks |-> 0, item |-> item]
    ELSE IF ~QueueEmpty(h)
    THEN [ok |-> TRUE, q |-> QueueRemoveFront(h), ticks |-> 0, item |-> QueueFront(h)]
    ELSE [ok |-> FALSE, q |-> h, ticks |-> WAIT_TIME, item |-> item]

\* gTaskDecoupler.init(maxItems, sizeof(WebReq*)) of surface s.
Decoupler_init(s) ==
    \E c \in CapacitiesOf(s), ok \in BOOLEAN :
        LET d == DecouplerOf(s)
            h == init(decoupler[d], c, ok)
        IN  /\ decoupler' = [decoupler EXCEPT ![d] = h]
            /\ lastOp' = [surface |-> s, op |-> "init", ok |-> h.valid, ticks |-> 0,
                          arg |-> c]
            /\ discarded' = [discarded EXCEPT ![d] = @ \cup Range(decoupler[d].items)]
            /\ UNCHANGED <<qItems, out, rejectedNull, rejectedFull, notQueueVars>>

\* gTaskDecoupler.addItem(item) of surface s with a new item.
Decoupler_addItem(s) ==
    /\ qItems < MaxItems
    /\ LET d == DecouplerOf(s)
           item == qItems + 1
           r == addItemResult(decoupler[d], item)
       IN  /\ qItems' = item
           /\ decoupler' = [decoupler EXCEPT ![d] = r.q]
           /\ lastOp' = [surface |-> s, op |-> "addItem", ok |-> r.ok, ticks |-> r.ticks,
                         arg |-> item]
           /\ rejectedNull' = [rejectedNull EXCEPT ![d] = @ \/ (~r.ok /\ r.ticks = 0)]
           /\ rejectedFull' = [rejectedFull EXCEPT ![d] = @ \/ (~r.ok /\ r.ticks > 0)]
           /\ UNCHANGED <<out, discarded, notQueueVars>>

\* WebReq* msg = nullptr; gTaskDecoupler.getItem(msg) of surface s.
Decoupler_getItem(s) ==
    LET d == DecouplerOf(s)
        r == getItemResult(decoupler[d], NullReq)
    IN  /\ decoupler' = [decoupler EXCEPT ![d] = r.q]
        /\ out' = [out EXCEPT ![s] = r.item]
        /\ lastOp' = [surface |-> s, op |-> "getItem", ok |-> r.ok, ticks |-> r.ticks,
                      arg |-> r.item]
        /\ UNCHANGED <<qItems, discarded, rejectedNull, rejectedFull, notQueueVars>>

NextQueues ==
    \/ \E s \in Surfaces : Decoupler_init(s)
    \/ \E s \in Surfaces : Decoupler_addItem(s)
    \/ \E s \in Surfaces : Decoupler_getItem(s)

(***************************************************************************)
(* uploadHandler: firmware / filesystem upload, chunk by chunk.            *)
(***************************************************************************)
InitUpload ==
    /\ gIsUploadError = FALSE
    /\ updateRunning = FALSE
    /\ updateWritten = 0
    /\ spiffsMounted = TRUE
    /\ progressShown = FALSE
    /\ uploadPhase = "idle"
    /\ uploadIndex = 0
    /\ uploadFile = FILESYSTEM_FILENAME
    /\ uploadReplies = {}
    /\ restartRequested = FALSE

\* What uploadHandler reads and writes, as one value.
UploadState ==
    [error |-> gIsUploadError, running |-> updateRunning, written |-> updateWritten,
     mounted |-> spiffsMounted, shown |-> progressShown, replies |-> uploadReplies]

\* uploadHandler, if (0 == index): SPIFFS.end() for a filesystem image, then
\* Update.begin, which fails if beginOk is false or an update is running.
uploadBegin(u, filename, beginOk) ==
    LET closed == [u EXCEPT !.error = FALSE,
                            !.mounted = IF filename = FILESYSTEM_FILENAME THEN FALSE ELSE @]
    IN  IF ~(beginOk /\ ~u.running)
        THEN [closed EXCEPT !.error = TRUE,
                            !.mounted = TRUE,
                            !.replies = @ \cup {"Upload aborted."}]
        ELSE [closed EXCEPT !.running = TRUE, !.written = 0, !.shown = TRUE]

\* uploadHandler, if (true == Update.isRunning()) with no error so far:
\* Update.write, and Update.end(true) for the final chunk. After a failed
\* write or end the Update library has stopped the update (libAborts) or
\* still runs it.
uploadWrite(u, final, writeOk, endOk, libAborts) ==
    LET w == IF writeOk
             THEN [u EXCEPT !.written = @ + 1]
             ELSE [u EXCEPT !.error = TRUE, !.running = ~libAborts]
    IN  IF ~final
        THEN w
        ELSE IF w.running /\ ~w.error /\ endOk
        THEN [w EXCEPT !.running = FALSE, !.shown = FALSE]
        ELSE [w EXCEPT !.error = TRUE, !.running = @ /\ ~libAborts]

\* uploadHandler, if (true == Update.isRunning()) with gIsUploadError set:
\* SPIFFS.begin, Update.abort, endProgress, "Upload aborted.".
uploadAbort(u) ==
    [u EXCEPT !.mounted = TRUE,
              !.running = FALSE,
              !.shown = FALSE,
              !.replies = @ \cup {"Upload aborted."}]

\* The part of uploadHandler after the begin of the upload.
uploadChunk(u, final, writeOk, endOk, libAborts) ==
    IF ~u.running THEN u
    ELSE IF ~u.error THEN uploadWrite(u, final, writeOk, endOk, libAborts)
    ELSE uploadAbort(u)

\* uploadHandler(request, filename, index, data, len, final) for the next
\* chunk of the upload, or for the first chunk of a new upload.
uploadHandler ==
    /\ uploadPhase # "finished"
    /\ \E index \in {0, uploadIndex}, filename \in Filenames, final \in BOOLEAN,
          beginOk \in BOOLEAN, writeOk \in BOOLEAN, endOk \in BOOLEAN,
          libAborts \in BOOLEAN :
           /\ index < MaxChunks
           /\ index > 0 => uploadPhase = "uploading" /\ filename = uploadFile
           /\ LET u0 == IF index = 0
                        THEN [UploadState EXCEPT !.replies = {}]
                        ELSE UploadState
                  u1 == IF index = 0 THEN uploadBegin(u0, filename, beginOk) ELSE u0
                  u2 == uploadChunk(u1, final, writeOk, endOk, libAborts)
              IN  /\ gIsUploadError' = u2.error
                  /\ updateRunning' = u2.running
                  /\ updateWritten' = u2.written
                  /\ spiffsMounted' = u2.mounted
                  /\ progressShown' = u2.shown
                  /\ uploadReplies' = u2.replies
           /\ uploadIndex' = index + 1
           /\ uploadFile' = filename
           /\ uploadPhase' = IF final THEN "finished" ELSE "uploading"
    /\ UNCHANGED <<webVars, auxVars, pluginVars, restartRequested>>

\* uploadPage: the request handler, called after the final chunk.
uploadPage ==
    /\ uploadPhase = "finished"
    /\ uploadReplies' = uploadReplies \cup {IF gIsUploadError THEN "Error" ELSE "Ok"}
    /\ restartRequested' = (restartRequested \/ ~gIsUploadError)
    /\ uploadPhase' = "answered"
    /\ UNCHANGED <<webVars, auxVars, pluginVars, gIsUploadError, updateRunning, updateWritten,
                   spiffsMounted, progressShown, uploadIndex, uploadFile>>

\* The restart that uploadPage requested: everything starts anew.
restart ==
    /\ restartRequested
    /\ gIsUploadError' = FALSE
    /\ updateRunning' = FALSE
    /\ updateWritten' = 0
    /\ spiffsMounted' = TRUE
    /\ progressShown' = FALSE
    /\ uploadPhase' = "idle"
    /\ uploadIndex' = 0
    /\ uploadFile' = FILESYSTEM_FILENAME
    /\ uploadReplies' = {}
    /\ restartRequested' = FALSE
    /\ UNCHANGED <<webVars, auxVars, pluginVars>>

NextUpload == uploadHandler \/ uploadPage \/ restart


(***************************************************************************)
(* WebUploadReq: the chunks of an upload on their way to uploadHandler.    *)
(***************************************************************************)
\* WebUploadReq::copy (and WebWsReq::copy): new uint8_t[size] and memcpy, or
\* m_data == nullptr and m_len == 0 if the allocation fails.
copy(src, size, allocOk) ==
    IF src # NullData /\ allocOk
    THEN [m_data |-> SubSeq(src, 1, size), m_len |-> size]
    ELSE [m_data |-> NullData, m_len |-> 0]

\* WebUploadReq::WebUploadReq: the request by its address, filename, index and
\* final by value, the data by copy. src is what data pointed to.
WebUploadReq(filename, index, data, len, final, allocOk) ==
    [m_filename |-> filename,
     m_index |-> index,
     m_data |-> copy(data, len, allocOk).m_data,
     m_len |-> copy(data, len, allocOk).m_len,
     m_final |-> final,
     src |-> data]

\* safeUploadHandler for the next chunk of the upload of an authenticated
\* client, called by the web server with its buffer.
Chunk_safeUploadHandler ==
    /\ requestValid
    /\ ~wireFinal
    /\ wireChunks < MaxChunks
    /\ \E payload \in Payloads, final \in BOOLEAN, filename \in Filenames,
          itemOk \in BOOLEAN, allocOk \in BOOLEAN :
           /\ wireChunks > 0 => filename = wireFile
           /\ ~itemOk => allocOk
           /\ rxBuffer' = payload
           /\ wireOffset' = wireOffset + Len(payload)
           /\ wireChunks' = wireChunks + 1
           /\ wireFinal' = final
           /\ wireFile' = filename
           /\ LET item == WebUploadReq(filename, wireOffset, payload, Len(payload),
                                       final, allocOk)
              IN  IF itemOk /\ Len(chunkQueue) < MaxCapacity
                  THEN /\ chunkQueue' = Append(chunkQueue, item)
                       /\ UNCHANGED <<insufficient, queueFull>>
                  ELSE /\ insufficient' = TRUE
                       /\ queueFull' = (queueFull \/ itemOk)
                       /\ UNCHANGED chunkQueue
    /\ UNCHANGED <<requestValid, lastCall, bytesWritten>>
    /\ UNCHANGED <<webVars, pluginVars, uploadVars, queueVars, boots, settingsVars, coreVars>>

\* The web server uses its buffer for the next data after the callback
\* has returned.
Chunk_bufferReuse ==
    /\ rxBuffer # Overwritten
    /\ rxBuffer' = Overwritten
    /\ UNCHANGED <<wireOffset, wireChunks, wireFinal, wireFile, chunkQueue,
                   requestValid, insufficient, queueFull, lastCall, bytesWritten>>
    /\ UNCHANGED <<webVars, pluginVars, uploadVars, queueVars, boots, settingsVars, coreVars>>

\* The client disconnects: the web server deletes the AsyncWebServerRequest.
\* The queued WebReq objects keep its address.
Chunk_disconnect ==
    /\ requestValid
    /\ wireChunks > 0
    /\ requestValid' = FALSE
    /\ UNCHANGED <<rxBuffer, wireOffset, wireChunks, wireFinal, wireFile, chunkQueue,
                   insufficient, queueFull, lastCall, bytesWritten>>
    /\ UNCHANGED <<webVars, pluginVars, uploadVars, queueVars, boots, settingsVars, coreVars>>

\* Pages::process: getItem, WebUploadReq::call, which is uploadHandler with
\* the members of the object, and delete.
Chunk_process ==
    /\ chunkQueue # <<>>
    /\ \E beginOk \in BOOLEAN, writeOk \in BOOLEAN, endOk \in BOOLEAN,
          libAborts \in BOOLEAN :
           LET item == Head(chunkQueue)
               u0 == IF item.m_index = 0
                     THEN [UploadState EXCEPT !.replies = {}]
                     ELSE UploadState
               u1 == IF item.m_index = 0
                     THEN uploadBegin(u0, item.m_filename, beginOk)
                     ELSE u0
               accepted == writeOk \/ item.m_len = 0
               u2 == uploadChunk(u1, item.m_final, accepted, endOk, libAborts)
               begun == item.m_index = 0 /\ u1.running /\ ~u1.error
               wrote == u1.running /\ ~u1.error /\ accepted
           IN  /\ chunkQueue' = Tail(chunkQueue)
               /\ lastCall' = [index |-> item.m_index, data |-> item.m_data,
                               len |-> item.m_len, final |-> item.m_final,
                               src |-> item.src, valid |-> requestValid,
                               called |-> TRUE]
               /\ bytesWritten' = (IF begun THEN 0 ELSE bytesWritten)
                                  + (IF wrote THEN item.m_len ELSE 0)
               /\ gIsUploadError' = u2.error
               /\ updateRunning' = u2.running
               /\ updateWritten' = u2.written
               /\ spiffsMounted' = u2.mounted
               /\ progressShown' = u2.shown
               /\ uploadReplies' = u2.replies
    /\ UNCHANGED <<rxBuffer, wireOffset, wireChunks, wireFinal, wireFile,
                   requestValid, insufficient, queueFull>>
    /\ UNCHANGED <<uploadPhase, uploadIndex, uploadFile, restartRequested>>
    /\ UNCHANGED <<webVars, pluginVars, queueVars, boots, settingsVars, coreVars>>

\* uploadPage, which the web server calls for the POST once the body of the
\* request, the upload, is complete. It runs in the main loop after the
\* chunks that were queued before it.
Chunk_uploadPage ==
    /\ wireFinal
    /\ chunkQueue = <<>>
    /\ uploadPhase # "answered"
    /\ uploadReplies' = uploadReplies \cup {IF gIsUploadError THEN "Error" ELSE "Ok"}
    /\ restartRequested' = (restartRequested \/ ~gIsUploadError)
    /\ uploadPhase' = "answered"
    /\ UNCHANGED <<gIsUploadError, updateRunning, updateWritten, spiffsMounted,
                   progressShown, uploadIndex, uploadFile>>
    /\ UNCHANGED chunkVars
    /\ UNCHANGED <<webVars, pluginVars, queueVars, boots, settingsVars, coreVars>>

NextChunks ==
    \/ Chunk_safeUploadHandler
    \/ Chunk_bufferReuse
    \/ Chunk_disconnect
    \/ Chunk_process
    \/ Chunk_uploadPage

(***************************************************************************)
(* SunrisePlugin: the recursive mutex and the methods that use it.         *)
(***************************************************************************)
InitPlugin ==
    /\ plugin = "none"
    /\ m_xMutex = "nullptr"
    /\ mutexHolder = NoTask
    /\ mutexCount = 0
    /\ method = [t \in PluginTasks |-> "none"]
    /\ at = [t \in PluginTasks |-> "idle"]
    /\ arg = DefaultLocation
    /\ m_location = DefaultLocation
    /\ m_relevantResponsePart = ""
    /\ m_textWidget = ""
    /\ m_iconCanvas = FALSE
    /\ m_textCanvas = FALSE
    /\ m_requestTimer = "stopped"
    /\ m_httpResponseReceived = FALSE
    /\ configFile = NoFile
    /\ requestPending = FALSE

\* Mutant of xSemaphoreTakeRecursiveAllowed: a mutex that is not recursive.
xSemaphoreTakeAllowed(t) == mutexHolder = NoTask

\* xSemaphoreTakeRecursive(m_xMutex, portMAX_DELAY) returns once the mutex is
\* free or already held by the calling task; until then the task waits.
xSemaphoreTakeRecursiveAllowed(t) == mutexHolder \in {NoTask, t}

\* Mutant of xSemaphoreTakeRecursive: one take counts twice.
xSemaphoreTakeTwice(t) ==
    /\ mutexHolder' = t
    /\ mutexCount' = mutexCount + 2

xSemaphoreTakeRecursive(t) ==
    /\ mutexHolder' = t
    /\ mutexCount' = mutexCount + 1

\* Mutant of xSemaphoreGiveRecursive: the mutex is not given back.
xSemaphoreGiveNothing(t) == UNCHANGED lockVars

\* xSemaphoreGiveRecursive(m_xMutex): the holder's count drops, at 0 the mutex
\* is free; a give by a task that is not the holder fails.
xSemaphoreGiveRecursive(t) ==
    IF mutexHolder = t
    THEN /\ mutexCount' = mutexCount - 1
         /\ mutexHolder' = IF mutexCount = 1 THEN NoTask ELSE t
    ELSE UNCHANGED lockVars

Goto(t, m, a) ==
    /\ method' = [method EXCEPT ![t] = m]
    /\ at' = [at EXCEPT ![t] = a]

\* The constructor (SunrisePlugin.h) creates the mutex.
SunrisePlugin ==
    /\ plugin = "none"
    /\ plugin' = "installed"
    /\ m_xMutex' = "created"
    /\ UNCHANGED <<webVars, auxVars, uploadVars, lockVars, ctlVars, fieldVars, envVars>>

\* SunrisePlugin::lock
lock(t) ==
    /\ at[t] = "lock"
    /\ IF m_xMutex # "nullptr"
       THEN xSemaphoreTakeRecursiveAllowed(t) /\ xSemaphoreTakeRecursive(t)
       ELSE UNCHANGED lockVars
    /\ at' = [at EXCEPT ![t] = "body"]
    /\ UNCHANGED <<webVars, auxVars, uploadVars, plugin, m_xMutex, method, arg, fieldVars, envVars>>

\* SunrisePlugin::unlock, and the return of the method that called it.
unlock(t) ==
    /\ at[t] = "unlock"
    /\ IF m_xMutex # "nullptr"
       THEN xSemaphoreGiveRecursive(t)
       ELSE UNCHANGED lockVars
    /\ Goto(t, "none", "idle")
    /\ arg' = DefaultLocation
    /\ UNCHANGED <<webVars, auxVars, uploadVars, plugin, m_xMutex, fieldVars, envVars>>

\* The main loop is between two calls.
MainIdle == at[MainLoop] = "idle" /\ mainPc = "idle" /\ msg = NullReq

\* The main loop calls a method of the plugin.
MainCalls(m) ==
    /\ MainIdle
    /\ Goto(MainLoop, m, "lock")
    /\ UNCHANGED <<webVars, auxVars, uploadVars, m_xMutex, lockVars, arg, fieldVars, envVars>>

\* Task t is in the critical section of the method m.
InBody(t, m) == method[t] = m /\ at[t] = "body"

BodyDone(t) ==
    /\ at' = [at EXCEPT ![t] = "unlock"]
    /\ UNCHANGED <<webVars, auxVars, uploadVars, plugin, m_xMutex, lockVars, method, arg>>

\* startHttpRequest, followed by the restart of the request timer.
startHttpRequest ==
    \E status \in BOOLEAN :
        /\ requestPending' = (requestPending \/ status)
        /\ m_requestTimer' = IF status THEN "long" ELSE "short"

Plugin_start == plugin = "installed" /\ plugin' = "started" /\ MainCalls("start")

\* Mutant of startBody: the default configuration is written at every start,
\* the file is never loaded.
startBodyAlwaysSaves ==
    /\ InBody(MainLoop, "start")
    /\ m_location' = m_location
    /\ configFile' = m_location
    /\ startHttpRequest
    /\ BodyDone(MainLoop)
    /\ UNCHANGED <<m_relevantResponsePart, m_textWidget, m_iconCanvas,
                   m_textCanvas, m_httpResponseReceived>>

\* loadConfiguration, else saveConfiguration; initHttpClient; startHttpRequest.
startBody ==
    /\ InBody(MainLoop, "start")
    /\ IF configFile # NoFile
       THEN m_location' = configFile /\ configFile' = configFile
       ELSE /\ m_location' = m_location
            /\ \E saved \in BOOLEAN :
                   configFile' = IF saved THEN m_location ELSE configFile
    /\ startHttpRequest
    /\ BodyDone(MainLoop)
    /\ UNCHANGED <<m_relevantResponsePart, m_textWidget, m_iconCanvas,
                   m_textCanvas, m_httpResponseReceived>>

Plugin_stop == plugin = "started" /\ plugin' = "stopped" /\ MainCalls("stop")

stopBody ==
    /\ InBody(MainLoop, "stop")
    /\ m_requestTimer' = "stopped"
    /\ \E removed \in BOOLEAN :
           configFile' = IF removed THEN NoFile ELSE configFile
    /\ BodyDone(MainLoop)
    /\ UNCHANGED <<m_location, m_relevantResponsePart, m_textWidget, m_iconCanvas,
                   m_textCanvas, m_httpResponseReceived, requestPending>>

Plugin_process == plugin = "started" /\ plugin' = plugin /\ MainCalls("process")

processBody ==
    /\ InBody(MainLoop, "process")
    /\ \E isTimeout \in BOOLEAN :
           IF m_requestTimer # "stopped" /\ isTimeout
           THEN startHttpRequest
           ELSE UNCHANGED <<requestPending, m_requestTimer>>
    /\ BodyDone(MainLoop)
    /\ UNCHANGED <<m_location, m_relevantResponsePart, m_textWidget, m_iconCanvas,
                   m_textCanvas, m_httpResponseReceived, configFile>>

Plugin_active == plugin = "started" /\ plugin' = plugin /\ MainCalls("active")

\* new Canvas may return nullptr.
activeBody ==
    /\ InBody(MainLoop, "active")
    /\ \E ok \in BOOLEAN : m_iconCanvas' = (m_iconCanvas \/ ok)
    /\ \E ok \in BOOLEAN : m_textCanvas' = (m_textCanvas \/ ok)
    /\ BodyDone(MainLoop)
    /\ UNCHANGED <<m_location, m_relevantResponsePart, m_textWidget,
                   m_requestTimer, m_httpResponseReceived, envVars>>

Plugin_inactive ==
    /\ MainIdle
    /\ plugin = "started"
    /\ UNCHANGED <<webVars, auxVars, uploadVars, pluginVars>>

Plugin_update == plugin = "started" /\ plugin' = plugin /\ MainCalls("update")

updateBody ==
    /\ InBody(MainLoop, "update")
    /\ BodyDone(MainLoop)
    /\ UNCHANGED <<fieldVars, envVars>>

\* webReqHandler, run by the web server task: GET -> getLocation, POST with
\* both arguments -> setLocation, anything else is answered at once.
HttpMethods == {"HTTP_GET", "HTTP_POST", "HTTP_PUT"}

webReqHandler ==
    /\ plugin # "none"
    /\ at[WebTask] = "idle"
    /\ \E m \in HttpMethods, hasArgs \in BOOLEAN, location \in Locations :
           IF m = "HTTP_GET"
           THEN Goto(WebTask, "getLocation", "lock") /\ arg' = arg
           ELSE IF m = "HTTP_POST" /\ hasArgs
           THEN Goto(WebTask, "setLocation", "lock") /\ arg' = location
           ELSE UNCHANGED <<method, at, arg>>
    /\ UNCHANGED <<webVars, auxVars, uploadVars, plugin, m_xMutex, lockVars, fieldVars, envVars>>

\* getLocation copies m_longitude and m_latitude for the response.
getLocation ==
    /\ InBody(WebTask, "getLocation")
    /\ BodyDone(WebTask)
    /\ UNCHANGED <<fieldVars, envVars>>

setLocation ==
    /\ InBody(WebTask, "setLocation")
    /\ IF arg # m_location
       THEN /\ m_location' = arg
            /\ \E saved \in BOOLEAN :
                   configFile' = IF saved THEN arg ELSE configFile
       ELSE UNCHANGED <<m_location, configFile>>
    /\ BodyDone(WebTask)
    /\ UNCHANGED <<m_relevantResponsePart, m_textWidget, m_iconCanvas, m_textCanvas,
                   m_requestTimer, m_httpResponseReceived, requestPending>>

\* The HTTP client calls the lambda of initHttpClient with the response.
onResponse ==
    /\ requestPending
    /\ at[HttpTask] = "idle"
    /\ requestPending' = FALSE
    /\ Goto(HttpTask, "onResponse", "flag")
    /\ UNCHANGED <<webVars, auxVars, uploadVars, plugin, m_xMutex, lockVars, arg, fieldVars, configFile>>

\* m_httpResponseReceived = true; deserializeJson: on an error the lambda
\* returns, else it goes on to lock().
onResponseFlag ==
    /\ at[HttpTask] = "flag"
    /\ m_httpResponseReceived' = TRUE
    /\ \E jsonOk \in BOOLEAN :
           IF jsonOk THEN Goto(HttpTask, "onResponse", "lock")
                     ELSE Goto(HttpTask, "none", "idle")
    /\ UNCHANGED <<webVars, auxVars, uploadVars, plugin, m_xMutex, lockVars, arg, m_location,
                   m_relevantResponsePart, m_textWidget, m_iconCanvas, m_textCanvas,
                   m_requestTimer, envVars>>

onResponseBody ==
    /\ InBody(HttpTask, "onResponse")
    /\ \E r \in Responses : m_relevantResponsePart' = r /\ m_textWidget' = r
    /\ BodyDone(HttpTask)
    /\ UNCHANGED <<m_location, m_iconCanvas, m_textCanvas, m_requestTimer,
                   m_httpResponseReceived, envVars>>

\* Pages::process as the main loop calls it between two plugin calls; nothing
\* is put into the queue here.
QueueDrain ==
    /\ at[MainLoop] = "idle"
    /\ process \/ GetItemTimeout \/ TimePasses
    /\ UNCHANGED <<pluginVars, uploadVars, auxVars>>

\* setup() has run Pages::init before the first loop().
InitSetupDone ==
    /\ InitPlugin
    /\ InitUpload
    /\ InitAux
    /\ m_hQueue = init(NullQueue, REQ_QUEUE_MAX_ITEMS, TRUE)
    /\ started = TRUE
    /\ nextReq = 0
    /\ heap = [i \in ReqIds |-> "unalloc"]
    /\ kind = [i \in ReqIds |-> "none"]
    /\ calls = [i \in ReqIds |-> 0]
    /\ frees = [i \in ReqIds |-> 0]
    /\ replies = [i \in ReqIds |-> {}]
    /\ useAfterFree = FALSE
    /\ prodPc = [p \in Producers |-> "idle"]
    /\ prodItem = [p \in Producers |-> NullReq]
    /\ mainPc = "idle"
    /\ msg = NullReq
    /\ waited = [t \in QueueTasks |-> 0]
    /\ sent = <<>>
    /\ received = <<>>
    /\ getFailedAt = -1

\* The steps of task t inside the plugin, the lock acquisition apart.
TaskStep(t) ==
    \/ unlock(t)
    \/ (t = MainLoop /\ (startBody \/ stopBody \/ processBody \/ activeBody \/ updateBody))
    \/ (t = WebTask /\ (getLocation \/ setLocation))
    \/ (t = HttpTask /\ (onResponseFlag \/ onResponseBody))

NextPlugin ==
    \/ SunrisePlugin
    \/ Plugin_start \/ startBody
    \/ Plugin_stop \/ stopBody
    \/ Plugin_process \/ processBody
    \/ Plugin_active \/ activeBody
    \/ Plugin_inactive
    \/ Plugin_update \/ updateBody
    \/ webReqHandler \/ getLocation \/ setLocation
    \/ onResponse \/ onResponseFlag \/ onResponseBody
    \/ \E t \in PluginTasks : lock(t)
    \/ \E t \in PluginTasks : unlock(t)

\* A task inside a plugin method goes on, and a task that waits for the
\* mutex gets it when it is given back often enough.
FairPlugin ==
    \A t \in PluginTasks : WF_vars(TaskStep(t)) /\ SF_vars(lock(t))

(***************************************************************************)
(* Which task runs which handler, and what the handler has open meanwhile: *)
(* the settings store (Settings::open .. close), a file of the web pages   *)
(* (request->send(SPIFFS, ..)) or the configuration file of the plugin.    *)
(***************************************************************************)
HttpMethodsOfPage == {"GET", "POST"}

\* The handlers that the web server calls for a request, directly or deferred.
WebHandlers == {"settingsPage", "handleNotFound", "handleRequest", "webReqHandler"}

Enter(t, h, a, d) ==
    running' = [running EXCEPT ![t] = [handler |-> h, access |-> a, deferred |-> d]]

Leave(t) == running' = [running EXCEPT ![t] = Idle]

restOfSettings == <<webVars, uploadVars, queueVars, boots, chunkVars, coreVars>>

\* setup(): the plugin is installed; the web server gets the captive portal
\* (requests over the access point, ON_AP_FILTER) or the pages.
Settings_setup ==
    /\ wifiMode = "boot"
    /\ wifiMode' \in {"AP", "STA"}
    /\ plugin' = "installed"
    /\ m_xMutex' = "created"
    /\ UNCHANGED <<running, pending, lockVars, ctlVars, fieldVars, envVars, restOfSettings>>

\* Pages.cpp, safeReqHandler(request, settingsPage) in the task of the web
\* server: only authenticated requests are queued, 507 if there is no room.
Settings_safeReqHandler ==
    /\ wifiMode = "STA"
    /\ running[WebTask] = Idle
    /\ \E m \in HttpMethodsOfPage, authOK \in BOOLEAN :
           IF authOK /\ Len(pending) < MaxCapacity
           THEN pending' = Append(pending, [handler |-> "settingsPage", method |-> m])
           ELSE UNCHANGED pending
    /\ UNCHANGED <<wifiMode, running, pluginVars, restOfSettings>>

\* CaptivePortal::error: safeReqHandler(request, handleNotFound).
Portal_safeReqHandler ==
    /\ wifiMode = "AP"
    /\ running[WebTask] = Idle
    /\ \E authOK \in BOOLEAN :
           IF authOK /\ Len(pending) < MaxCapacity
           THEN pending' = Append(pending, [handler |-> "handleNotFound", method |-> "GET"])
           ELSE UNCHANGED pending
    /\ UNCHANGED <<wifiMode, running, pluginVars, restOfSettings>>

\* Pages::process / CaptivePortal::process in the main loop: getItem and
\* msg->call(). settingsPage opens the settings store for a POST and sends
\* /settings.html for a GET; handleNotFound sends a file.
Deferred_process ==
    /\ running[MainLoop] = Idle
    /\ pending # <<>>
    /\ pending' = Tail(pending)
    /\ LET req == Head(pending)
       IN  IF req.handler = "settingsPage" /\ req.method = "POST"
           THEN \E openOk \in BOOLEAN :
                    IF openOk THEN Enter(MainLoop, req.handler, "settings", TRUE)
                              ELSE UNCHANGED running
           ELSE Enter(MainLoop, req.handler, "filesystem", TRUE)
    /\ UNCHANGED <<wifiMode, pluginVars, restOfSettings>>

\* CaptivePortalHandler::handleRequest, called by the web server in its task:
\* a POST with ssid and passphrase opens the settings store, a GET sends
\* /cp/captivePortal.html, anything else is answered at once.
Portal_handleRequest ==
    /\ wifiMode = "AP"
    /\ running[WebTask] = Idle
    /\ \E authOK \in BOOLEAN, m \in HttpMethodsOfPage \cup {"OTHER"},
          hasSsid \in BOOLEAN, openOk \in BOOLEAN :
           IF ~authOK \/ m = "OTHER" THEN UNCHANGED running
           ELSE IF m = "GET" THEN Enter(WebTask, "handleRequest", "filesystem", FALSE)
           ELSE IF hasSsid /\ openOk THEN Enter(WebTask, "handleRequest", "settings", FALSE)
           ELSE UNCHANGED running
    /\ UNCHANGED <<wifiMode, pending, pluginVars, restOfSettings>>

\* SunrisePlugin::webReqHandler, registered with srv.on and called by the web
\* server in its task: a POST calls setLocation, which saves the
\* configuration between lock() and unlock().
Plugin_webRequest ==
    /\ wifiMode = "STA"
    /\ running[WebTask] = Idle
    /\ xSemaphoreTakeRecursiveAllowed(WebTask)
    /\ xSemaphoreTakeRecursive(WebTask)
    /\ Enter(WebTask, "webReqHandler", "config", FALSE)
    /\ UNCHANGED <<wifiMode, pending, plugin, m_xMutex, ctlVars, fieldVars, envVars,
                   restOfSettings>>

\* SunrisePlugin::start / stop in the main loop: the configuration file is
\* loaded, saved or removed between lock() and unlock().
Plugin_configInLoop ==
    /\ wifiMode # "boot"
    /\ running[MainLoop] = Idle
    /\ xSemaphoreTakeRecursiveAllowed(MainLoop)
    /\ xSemaphoreTakeRecursive(MainLoop)
    /\ Enter(MainLoop, "start", "config", FALSE)
    /\ UNCHANGED <<wifiMode, pending, plugin, m_xMutex, ctlVars, fieldVars, envVars,
                   restOfSettings>>

\* The lambda of initHttpClient in the task of the HTTP client:
\* addCurrentTimezoneValues opens the settings store, reads and closes it,
\* before lock().
Http_addCurrentTimezoneValues ==
    /\ wifiMode = "STA"
    /\ running[HttpTask] = Idle
    /\ \E openOk \in BOOLEAN :
           IF openOk THEN Enter(HttpTask, "onResponse", "settings", FALSE)
                     ELSE UNCHANGED running
    /\ UNCHANGED <<wifiMode, pending, pluginVars, restOfSettings>>

\* The handler of task t is done with what it has open: Settings::close,
\* the file is sent, or unlock() after the configuration file.
Handler_done(t) ==
    /\ running[t] # Idle
    /\ Leave(t)
    /\ IF running[t].access = "config"
       THEN xSemaphoreGiveRecursive(t)
       ELSE UNCHANGED lockVars
    /\ UNCHANGED <<wifiMode, pending, plugin, m_xMutex, ctlVars, fieldVars, envVars,
                   restOfSettings>>

NextSettings ==
    \/ Settings_setup
    \/ Settings_safeReqHandler
    \/ Portal_safeReqHandler
    \/ Deferred_process
    \/ Portal_handleRequest
    \/ Plugin_webRequest
    \/ Plugin_configInLoop
    \/ Http_addCurrentTimezoneValues
    \/ \E t \in PluginTasks : Handler_done(t)

(***************************************************************************)
(* isValidHostname.                                                        *)
(***************************************************************************)
\* Characters that hostnames are made of here: a lower case letter, an upper
\* case letter, a digit, the minus sign and one character of no class.
Chars == {"a", "Z", "7", "-", "_"}

IsDigit(c) == c \in {"0", "1", "2", "3", "4", "5", "6", "7", "8", "9"}
IsUpper(c) == c \in {"A", "Z"}
IsLower(c) == c \in {"a", "z"}

\* Settings::getInstance().getHostname().getMinLength() / getMaxLength().
MIN_HOSTNAME_LENGTH == 1
MAX_HOSTNAME_LENGTH == MaxHostLen - 1

\* All strings over Chars up to n characters.
RECURSIVE StringsUpTo(_)
StringsUpTo(n) ==
    IF n = 0 THEN {<<>>}
    ELSE LET shorter == StringsUpTo(n - 1)
         IN  shorter \cup {Append(str, c) : str \in {x \in shorter : Len(x) = n - 1}, c \in Chars}

Hostnames == StringsUpTo(MaxHostLen)

\* The while loop of isValidHostname from index on (index counts from 1 here).
RECURSIVE hostnameCharsValid(_, _)
hostnameCharsValid(str, index) ==
    IF index > Len(str) THEN TRUE
    ELSE LET c == str[index]
             ok == IF IsDigit(c) THEN index # 1
                   ELSE IF IsUpper(c) \/ IsLower(c) THEN TRUE
                   ELSE IF c = "-" THEN index # 1
                   ELSE FALSE
         IN  ok /\ hostnameCharsValid(str, index + 1)

\* Mutant of isValidHostname: the length alone decides.
isValidHostnameLengthOnly(str) ==
    ~(MIN_HOSTNAME_LENGTH > Len(str) \/ MAX_HOSTNAME_LENGTH < Len(str))

isValidHostname(str) ==
    IF MIN_HOSTNAME_LENGTH > Len(str) \/ MAX_HOSTNAME_LENGTH < Len(str)
    THEN FALSE
    ELSE hostnameCharsValid(str, 1)

\* A client sends a hostname.
Hostname_request ==
    /\ hostname = <<>>
    /\ ~checked
    /\ \E str \in Hostnames : hostname' = str
    /\ checked' = FALSE
    /\ isValid' = FALSE
    /\ UNCHANGED <<storeVars, widgetVars, notCoreVars>>

\* storeSetting calls isValidHostname(value).
Hostname_validate ==
    /\ ~checked
    /\ checked' = TRUE
    /\ isValid' = isValidHostname(hostname)
    /\ UNCHANGED <<hostname, storeVars, widgetVars, notCoreVars>>

NextHostname == Hostname_request \/ Hostname_validate

(***************************************************************************)
(* settingsPage, POST: storeSetting for the arguments of the request.      *)
(***************************************************************************)
\* The values that a client sends for each setting.
ArgValues ==
    [hostname : {<<"a", "7">>, <<"7">>, [i \in 1..MaxHostLen |-> "a"]},
     bool : {"true", "false", "yes"},
     uint8 : {<<"7">>, <<"0">>, <<"a">>, <<"3", "0", "0">>},
     int32 : {<<"-", "7">>, <<"7", "7">>, <<"-">>},
     json : {<<"a", "a">>, <<"a", "a", "a">>},
     other : {<<"a">>}]

Requests == [present : SUBSET Keys, args : ArgValues]

DigitValue(c) ==
    CASE c = "0" -> 0 [] c = "1" -> 1 [] c = "2" -> 2 [] c = "3" -> 3 [] c = "4" -> 4
      [] c = "5" -> 5 [] c = "6" -> 6 [] c = "7" -> 7 [] c = "8" -> 8 [] c = "9" -> 9

\* The number that a string of digits stands for.
RECURSIVE DigitsValue(_)
DigitsValue(str) ==
    IF str = <<>> THEN 0
    ELSE 10 * DigitsValue(SubSeq(str, 1, Len(str) - 1)) + DigitValue(str[Len(str)])

AllDigits(str) == str # <<>> /\ \A i \in 1..Len(str) : IsDigit(str[i])

\* Util::strToUInt8: the conversion status and the value.
strToUInt8(str) ==
    IF AllDigits(str) /\ DigitsValue(str) <= 255
    THEN [convStatus |-> TRUE, value |-> DigitsValue(str)]
    ELSE [convStatus |-> FALSE, value |-> 0]

INT32_MAX == 2147483647
INT32_MIN == (0 - INT32_MAX) - 1

\* Util::strToInt32: the conversion status and the value.
strToInt32(str) ==
    LET negative == str # <<>> /\ str[1] = "-"
        digits == IF negative THEN Tail(str) ELSE str
        number == IF negative THEN 0 - DigitsValue(digits) ELSE DigitsValue(digits)
    IN  IF AllDigits(digits) /\ number >= INT32_MIN /\ number <= INT32_MAX
        THEN [convStatus |-> TRUE, value |-> number]
        ELSE [convStatus |-> FALSE, value |-> 0]

Rejected(values, text) == [status |-> FALSE, values |-> values, error |-> text]
Stored(values, key, v) == [status |-> TRUE, values |-> [values EXCEPT ![key] = v], error |-> ""]

\* Mutant of storeSetting: every string is stored as it comes, nothing else.
storeSettingUnchecked(parameter, value, values) ==
    IF parameter.type \in {"STRING", "JSON"}
    THEN Stored(values, parameter.key, value)
    ELSE Rejected(values, "Unknown parameter.")

\* storeSetting(parameter, value, jsonDoc) on the settings values: the
\* status, the settings afterwards and jsonDoc["error"].
storeSetting(parameter, value, values) ==
    CASE parameter.type = "STRING" ->
             IF parameter.key = "hostname" /\ ~isValidHostname(value)
             THEN Rejected(values, "Invalid hostname.")
             ELSE IF parameter.min > Len(value)
             THEN Rejected(values, "String length lower than min.")
             ELSE IF parameter.max < Len(value)
             THEN Rejected(values, "String length greater than max.")
             ELSE Stored(values, parameter.key, value)
      [] parameter.type = "BOOL" ->
             IF value = "false" THEN Stored(values, parameter.key, FALSE)
             ELSE IF value = "true" THEN Stored(values, parameter.key, TRUE)
             ELSE Rejected(values, "Invalid value.")
      [] parameter.type = "UINT8" ->
             LET conv == strToUInt8(value)
             IN  IF ~conv.convStatus THEN Rejected(values, "Invalid value.")
                 ELSE IF parameter.min > conv.value
                 THEN Rejected(values, "Value lower than min.")
                 ELSE IF parameter.max < conv.value
                 THEN Rejected(values, "Value greater than max.")
                 ELSE Stored(values, parameter.key, conv.value)
      [] parameter.type = "INT32" ->
             LET conv == strToInt32(value)
             IN  IF ~conv.convStatus THEN Rejected(values, "Invalid value.")
                 ELSE IF parameter.min > conv.value
                 THEN Rejected(values, "Value lower than min.")
                 ELSE IF parameter.max < conv.value
                 THEN Rejected(values, "Value greater than max.")
                 ELSE Stored(values, parameter.key, conv.value)
      [] parameter.type = "JSON" ->
             IF parameter.min > Len(value)
             THEN Rejected(values, "JSON length lower than min.")
             ELSE IF parameter.max < Len(value)
             THEN Rejected(values, "JSON length greater than max.")
             ELSE Stored(values, parameter.key, value)
      [] OTHER -> Rejected(values, "Unknown parameter.")

\* The while loop of settingsPage from index on: the settings afterwards,
\* isError and the settings that storeSetting was called for.
RECURSIVE storeLoop(_, _, _, _)
storeLoop(r, index, values, called) ==
    IF index > KEY_VALUE_PAIR_NUM
    THEN [values |-> values, isError |-> FALSE, called |-> called]
    ELSE LET parameter == SettingsList[index]
         IN  IF parameter.key \in r.present
             THEN LET res == storeSetting(parameter, r.args[parameter.key], values)
                  IN  IF res.status
                      THEN storeLoop(r, index + 1, res.values, called \cup {index})
                      ELSE [values |-> res.values, isError |-> TRUE,
                            called |-> called \cup {index}]
             ELSE storeLoop(r, index + 1, values, called)

\* settingsPage for an authenticated POST with arguments: Settings::open,
\* the loop, Settings::close and the JSON answer (HTTP status 200).
settingsPage_POST ==
    /\ ~rsp.sent
    /\ \E r \in Requests, openOk \in BOOLEAN :
           /\ r.present # {}
           /\ postReq' = r
           /\ before' = stored
           /\ IF ~openOk
              THEN /\ rsp' = [status |-> 1, error |-> "Internal error.", sent |-> TRUE]
                   /\ processed' = {}
                   /\ UNCHANGED stored
              ELSE LET res == storeLoop(r, 1, stored, {})
                   IN  /\ stored' = res.values
                       /\ processed' = res.called
                       /\ rsp' = IF res.isError
                                 THEN [status |-> 1, error |-> "Internal error.", sent |-> TRUE]
                                 ELSE [status |-> 0, error |-> "", sent |-> TRUE]
    /\ UNCHANGED <<hostnameVars, widgetVars, notCoreVars>>

NextStore == settingsPage_POST

(***************************************************************************)
(* BitmapWidget: the widgets and their Color arrays.                       *)
(***************************************************************************)
\* The bitmaps that are given to set().
Bitmaps ==
    { [width |-> 1, height |-> 1, pixels |-> <<1>>],
      [width |-> 2, height |-> 1, pixels |-> <<2, 3>>],
      [width |-> 1, height |-> 2, pixels |-> <<4, 5>>] }

FreeBuffers == {b \in BufferIds : ~colorHeap[b].allocated}

\* new Color[size]: the array that the heap hands out.
NewBuffer == CHOOSE b \in FreeBuffers : \A c \in FreeBuffers : b <= c

\* Mutant of CopiedBuffer: the copy points to the array of the original.
SharedBuffer(widget, allocOk) == widget.m_buffer

\* m_buffer of the copy: stays nullptr if the original has no array or the
\* allocation fails.
CopiedBuffer(widget, allocOk) ==
    IF widget.m_buffer # NullBuffer /\ allocOk THEN NewBuffer ELSE NullBuffer

\* BitmapWidget::BitmapWidget(): an empty widget.
BitmapWidget(w) ==
    /\ widgets[w].life = "none"
    /\ widgets' = [widgets EXCEPT ![w] = [NoWidget EXCEPT !.life = "alive"]]
    /\ widgetOp' = [op |-> "construct", src |-> 0, dst |-> w, ok |-> TRUE]
    /\ UNCHANGED <<colorHeap, hostnameVars, storeVars, notCoreVars>>

\* BitmapWidget::BitmapWidget(const BitmapWidget& widget): dst is
\* constructed as a copy of src.
BitmapWidget_copy(src, dst) ==
    /\ widgets[src].life = "alive"
    /\ widgets[dst].life = "none"
    /\ \E heapOk \in BOOLEAN :
           LET widget == widgets[src]
               allocOk == heapOk /\ FreeBuffers # {}
               buffer == CopiedBuffer(widget, allocOk)
               failed == widget.m_buffer # NullBuffer /\ buffer = NullBuffer
           IN  /\ widgets' = [widgets EXCEPT ![dst] =
                                  [life |-> "alive",
                                   m_buffer |-> buffer,
                                   m_bufferSize |-> IF failed THEN 0 ELSE widget.m_bufferSize,
                                   m_width |-> widget.m_width,
                                   m_height |-> widget.m_height]]
               /\ colorHeap' = IF buffer = NullBuffer \/ buffer = widget.m_buffer
                               THEN colorHeap
                               ELSE [colorHeap EXCEPT ![buffer] =
                                         [allocated |-> TRUE,
                                          data |-> colorHeap[widget.m_buffer].data]]
               /\ widgetOp' = [op |-> "copy", src |-> src, dst |-> dst, ok |-> ~failed]
    /\ UNCHANGED <<hostnameVars, storeVars, notCoreVars>>

\* BitmapWidget::~BitmapWidget
BitmapWidget_destroy(w) ==
    /\ widgets[w].life = "alive"
    /\ widgets' = [widgets EXCEPT ![w] =
                       [life |-> "destroyed",
                        m_buffer |-> NullBuffer,
                        m_bufferSize |-> IF @.m_buffer # NullBuffer THEN 0 ELSE @.m_bufferSize,
                        m_width |-> @.m_width,
                        m_height |-> @.m_height]]
    /\ colorHeap' = IF widgets[w].m_buffer # NullBuffer
                    THEN [colorHeap EXCEPT ![widgets[w].m_buffer] = FreeBuffer]
                    ELSE colorHeap
    /\ widgetOp' = [op |-> "destroy", src |-> 0, dst |-> w, ok |-> TRUE]
    /\ UNCHANGED <<hostnameVars, storeVars, notCoreVars>>

\* BitmapWidget::set(bitmap, width, height): the old array is freed and a
\* new one holds a copy of the bitmap; if the allocation fails the widget
\* is empty.
BitmapWidget_set(w) ==
    /\ widgets[w].life = "alive"
    /\ \E bitmap \in Bitmaps, heapOk \in BOOLEAN :
           LET old == widgets[w].m_buffer
               freed == IF old # NullBuffer
                        THEN [colorHeap EXCEPT ![old] = FreeBuffer]
                        ELSE colorHeap
               allocOk == heapOk /\ FreeBuffers # {}
           IN  IF allocOk
               THEN /\ widgets' = [widgets EXCEPT ![w] =
                                       [life |-> "alive",
                                        m_buffer |-> NewBuffer,
                                        m_bufferSize |-> bitmap.width * bitmap.height,
                                        m_width |-> bitmap.width,
                                        m_height |-> bitmap.height]]
                    /\ colorHeap' = [freed EXCEPT ![NewBuffer] =
                                        [allocated |-> TRUE, data |-> bitmap.pixels]]
                    /\ widgetOp' = [op |-> "set", src |-> 0, dst |-> w, ok |-> TRUE]
               ELSE /\ widgets' = [widgets EXCEPT ![w] = [NoWidget EXCEPT !.life = "alive"]]
                    /\ colorHeap' = freed
                    /\ widgetOp' = [op |-> "set", src |-> 0, dst |-> w, ok |-> FALSE]
    /\ UNCHANGED <<hostnameVars, storeVars, notCoreVars>>

\* BitmapWidget::get(width, height): what a caller sees of the widget. The
\* pixels are read through the returned pointer.
get(w) ==
    [width |-> widgets[w].m_width,
     height |-> widgets[w].m_height,
     buffer |-> widgets[w].m_buffer,
     pixels |-> IF widgets[w].m_buffer = NullBuffer
                THEN <<>>
                ELSE colorHeap[widgets[w].m_buffer].data]

NextWidgets ==
    \/ \E w \in WidgetIds : BitmapWidget(w)
    \/ \E src, dst \in WidgetIds : BitmapWidget_copy(src, dst)
    \/ \E w \in WidgetIds : BitmapWidget_destroy(w)
    \/ \E w \in WidgetIds : BitmapWidget_set(w)

(***************************************************************************)
(* The update manager: the callbacks that ArduinoOTA.handle() runs.        *)
(***************************************************************************)
WiFiModes == {"WIFI_MODE_NULL", "WIFI_MODE_STA", "WIFI_MODE_AP", "WIFI_MODE_APSTA"}

OtaCommands == {"U_FLASH", "U_SPIFFS"}

OtaErrors ==
    {"OTA_AUTH_ERROR", "OTA_BEGIN_ERROR", "OTA_CONNECT_ERROR",
     "OTA_RECEIVE_ERROR", "OTA_END_ERROR"}

\* setup(): the wifi is brought up as station or as access point.
WiFi_mode(m) ==
    /\ ~m_isInitialized
    /\ otaWiFiMode = "WIFI_MODE_NULL"
    /\ m # "WIFI_MODE_NULL"
    /\ otaWiFiMode' = m
    /\ connection' = IF m = "WIFI_MODE_STA" THEN "sta" ELSE "ap"
    /\ UNCHANGED <<m_isInitialized, m_updateIsRunning, m_progressBar, otaState,
                   otaSpiffsMounted, resets, updStarted, lastCallback>>
    /\ UNCHANGED <<systemVars, slotVars, clientVars, tailVars, notLateVars>>

\* UpdateMgr::init()
UpdateMgr_init ==
    /\ ~m_isInitialized
    /\ otaWiFiMode # "WIFI_MODE_NULL"
    /\ m_isInitialized' = TRUE
    /\ UNCHANGED <<m_updateIsRunning, m_progressBar, otaState, otaSpiffsMounted,
                   otaWiFiMode, connection, resets, updStarted, lastCallback>>
    /\ UNCHANGED <<systemVars, slotVars, clientVars, tailVars, notLateVars>>

\* UpdateMgr::onStart(), run by ArduinoOTA.handle() in UpdateMgr::process().
onStart(command) ==
    /\ m_isInitialized
    /\ otaState = "idle"
    /\ resets <= MaxBoots
    /\ m_updateIsRunning' = TRUE
    /\ otaSpiffsMounted' = IF command = "U_FLASH" THEN otaSpiffsMounted ELSE FALSE
    /\ m_progressBar' = 0
    /\ otaState' = "update"
    /\ updStarted' = resets
    /\ lastCallback' = [fn |-> "onStart", boot |-> resets, running |-> TRUE,
                        error |-> "none"]
    /\ UNCHANGED <<m_isInitialized, otaWiFiMode, connection, resets>>
    /\ UNCHANGED <<systemVars, slotVars, clientVars, tailVars, notLateVars>>

\* UpdateMgr::onProgress(progress, total)
onProgress(progress, total) ==
    /\ m_isInitialized
    /\ otaState = "update"
    /\ LET PROGRESS_PERCENT == (progress * 100) \div total
       IN  m_progressBar' = PROGRESS_PERCENT % 256
    /\ m_progressBar' # m_progressBar
    /\ lastCallback' = [fn |-> "onProgress", boot |-> resets,
                        running |-> m_updateIsRunning, error |-> "none"]
    /\ UNCHANGED <<m_isInitialized, m_updateIsRunning, otaState, otaSpiffsMounted,
                   otaWiFiMode, connection, resets, updStarted>>
    /\ UNCHANGED <<systemVars, slotVars, clientVars, tailVars, notLateVars>>

\* Mutant of UpdateMgr_restart: the connections are closed, the device keeps running.
UpdateMgr_restartNot(fn, error) ==
    /\ connection' = IF otaWiFiMode = "WIFI_MODE_NULL" THEN connection ELSE "none"
    /\ m_updateIsRunning' = FALSE
    /\ otaState' = "idle"
    /\ lastCallback' = [fn |-> fn, boot |-> resets, running |-> FALSE,
                        error |-> error]
    /\ UNCHANGED <<m_isInitialized, m_progressBar, otaSpiffsMounted, otaWiFiMode,
                   resets, updStarted>>

\* UpdateMgr::restart(), called by the callback fn after it has cleared
\* m_updateIsRunning: the connections are closed and ESP.restart() boots the
\* device anew, which constructs the update manager again.
UpdateMgr_restart(fn, error) ==
    /\ connection' = "none"
    /\ otaWiFiMode' = "WIFI_MODE_NULL"
    /\ resets' = resets + 1
    /\ m_isInitialized' = FALSE
    /\ m_updateIsRunning' = FALSE
    /\ m_progressBar' = 0
    /\ otaState' = "idle"
    /\ otaSpiffsMounted' = TRUE
    /\ lastCallback' = [fn |-> fn, boot |-> resets, running |-> FALSE,
                        error |-> error]
    /\ UNCHANGED updStarted

\* UpdateMgr::onEnd()
onEnd ==
    /\ m_isInitialized
    /\ otaState = "update"
    /\ UpdateMgr_restart("onEnd", "none")
    /\ UNCHANGED <<systemVars, slotVars, clientVars, tailVars, notLateVars>>

\* UpdateMgr::onError(error)
onError(error) ==
    /\ m_isInitialized
    /\ resets <= MaxBoots
    /\ UpdateMgr_restart("onError", error)
    /\ UNCHANGED <<systemVars, slotVars, clientVars, tailVars, notLateVars>>

NextUpdate ==
    \/ \E m \in WiFiModes : WiFi_mode(m)
    \/ UpdateMgr_init
    \/ \E command \in OtaCommands : onStart(command)
    \/ \E total \in 1..MaxChunks : \E progress \in 0..total : onProgress(progress, total)
    \/ onEnd
    \/ \E error \in OtaErrors : onError(error)

(***************************************************************************)
(* The system state machine: StateMachine::process, the tick of the main   *)
(* loop, and the states with entry(), process() and exit().                *)
(***************************************************************************)
\* What the process() of the states reads.
SysInputs ==
    [button : BOOLEAN, initOk : BOOLEAN, connected : BOOLEAN, ota : BOOLEAN,
     done : BOOLEAN]

\* The inputs that the process() of state s reads; the others are not looked at.
ReadBy(s, in) ==
    CASE s = "Init" -> ~in.connected /\ ~in.ota /\ ~in.done
      [] s = "ConnectingSTA" -> ~in.button /\ in.initOk /\ ~in.ota /\ ~in.done
      [] s = "Running" -> ~in.button /\ in.initOk /\ ~in.connected /\ ~in.done
      [] s = "Updating" -> ~in.button /\ in.initOk /\ ~in.connected /\ ~in.ota
      [] OTHER -> ~in.button /\ in.initOk /\ ~in.connected /\ ~in.ota /\ ~in.done

\* Mutant of AbstractState_process: station mode is taken as connected at once.
AbstractState_processSkip(s, in) ==
    CASE s = "Init" -> IF ~in.initOk THEN "Error"
                       ELSE IF in.button THEN "ProvisionAP" ELSE "Running"
      [] s = "ConnectingSTA" -> IF in.connected THEN "Running" ELSE "none"
      [] s = "Running" -> IF in.ota THEN "Updating" ELSE "none"
      [] OTHER -> "none"

\* process(sm) of state s: the state it hands to sm.setState, or "none".
AbstractState_process(s, in) ==
    CASE s = "Init" -> IF ~in.initOk THEN "Error"
                       ELSE IF in.button THEN "ProvisionAP" ELSE "ConnectingSTA"
      [] s = "ConnectingSTA" -> IF in.connected THEN "Running" ELSE "none"
      [] s = "Running" -> IF in.ota THEN "Updating" ELSE "none"
      [] OTHER -> "none"

Call(fn, s) == [fn |-> fn, state |-> s]

\* Mutant of StateMachine_tick: setState changes the current state at once,
\* in the middle of process().
StateMachine_tickAtOnce(sm, in) ==
    LET now == IF sm.cur = "none" THEN sm.next ELSE sm.cur
        to == AbstractState_process(now, in)
    IN  [sm EXCEPT !.cur = IF to = "none" THEN now ELSE to,
                   !.next = "none",
                   !.calls = <<Call("process", now)>>,
                   !.processed[now] = @ + 1,
                   !.path = IF to = "none" THEN
                                (IF sm.cur = "none" THEN Append(@, now) ELSE @)
                            ELSE Append(IF sm.cur = "none" THEN Append(@, now) ELSE @, to),
                   !.boot = IF now = "Init"
                            THEN [read |-> TRUE, button |-> in.button, initOk |-> in.initOk]
                            ELSE @]

\* StateMachine::process: a requested state is made the current one, with
\* exit() of the old and entry() of the new state; then process() of the
\* current state, which may request the next one.
StateMachine_tick(sm, in) ==
    LET change == sm.next # "none"
        cur == IF change THEN sm.next ELSE sm.cur
        left == IF change /\ sm.cur # "none" THEN <<Call("exit", sm.cur)>> ELSE <<>>
        came == IF change THEN <<Call("entry", cur)>> ELSE <<>>
        exited1 == IF change /\ sm.cur # "none"
                   THEN [sm.exited EXCEPT ![sm.cur] = @ + 1]
                   ELSE sm.exited
        entered1 == IF change THEN [sm.entered EXCEPT ![cur] = @ + 1] ELSE sm.entered
    IN  [cur |-> cur,
         next |-> AbstractState_process(cur, in),
         calls |-> left \o came \o <<Call("process", cur)>>,
         entered |-> entered1,
         exited |-> exited1,
         processed |-> [sm.processed EXCEPT ![cur] = @ + 1],
         path |-> IF change THEN Append(sm.path, cur) ELSE sm.path,
         boot |-> IF cur = "Init"
                  THEN [read |-> TRUE, button |-> in.button, initOk |-> in.initOk]
                  ELSE sm.boot]

\* The state machine as one value.
StateMachine ==
    [cur |-> m_currentState, next |-> m_nextState, calls |-> sysCalls,
     entered |-> entryCalls, exited |-> exitCalls, processed |-> processCalls,
     path |-> sysPath, boot |-> bootInput]

\* The state that process() is called for in the next tick.
Ticking == IF m_nextState # "none" THEN m_nextState ELSE m_currentState

\* One tick of the main loop. In the updating state the device restarts
\* once the update is done: the state machine is constructed anew.
StateMachine_process ==
    /\ sysTicks < MaxTicks
    /\ \E in \in SysInputs :
           /\ ReadBy(Ticking, in)
           /\ in.done => sysBoots < MaxBoots
           /\ LET sm == StateMachine_tick(StateMachine, in)
                  rebooted == sm.cur = "Updating" /\ in.done
                  new == IF rebooted THEN NewStateMachine ELSE sm
              IN  /\ m_currentState' = new.cur
                  /\ m_nextState' = new.next
                  /\ sysCalls' = new.calls
                  /\ entryCalls' = new.entered
                  /\ exitCalls' = new.exited
                  /\ processCalls' = new.processed
                  /\ sysPath' = new.path
                  /\ bootInput' = new.boot
                  /\ sysTicks' = IF rebooted THEN 0 ELSE sysTicks + 1
                  /\ sysBoots' = IF rebooted THEN sysBoots + 1 ELSE sysBoots
    /\ UNCHANGED <<updateVars, slotVars, clientVars, tailVars, notLateVars>>

NextSystem == StateMachine_process

(***************************************************************************)
(* The slot scheduler: the slots of the display, the rotation timer and    *)
(* the plugin methods that the scheduler calls.                            *)
(***************************************************************************)
SlotCall(fn, s) == [fn |-> fn, slot |-> s]

\* The slots of st that hold a plugin.
Occupied(st) == {s \in Slots : st[s] # "Empty"}

\* The active slot of st, or 0.
ActiveSlot(st) ==
    IF \E s \in Slots : st[s] = "Active"
    THEN CHOOSE s \in Slots : st[s] = "Active"
    ELSE 0

\* The smallest slot of a set.
FirstOf(set) == CHOOSE s \in set : \A o \in set : s <= o

\* The occupied slot that follows slot after, round robin, or 0.
nextSlot(after, st) ==
    IF Occupied(st) = {} THEN 0
    ELSE IF \E s \in Occupied(st) : s > after
    THEN FirstOf({s \in Occupied(st) : s > after})
    ELSE FirstOf(Occupied(st))

\* Mutant of Rotate: the outgoing slot is not made inactive.
RotateKeepsOutgoing(outgoing, incoming, st) ==
    [st |-> [st EXCEPT ![incoming] = "Active"],
     calls |-> <<SlotCall("active", incoming)>>,
     fade |-> [from |-> outgoing, to |-> incoming, step |-> 0]]

\* The rotation from one slot to the next: inactive() of the outgoing
\* plugin, active() of the incoming plugin, then the fade begins.
Rotate(outgoing, incoming, st) ==
    [st |-> [st EXCEPT ![outgoing] = "Inactive", ![incoming] = "Active"],
     calls |-> <<SlotCall("inactive", outgoing), SlotCall("active", incoming)>>,
     fade |-> [from |-> outgoing, to |-> incoming, step |-> 0]]

\* A fade that goes on by one step, until its last step.
FadeStep(f) ==
    IF f = NoFade \/ f.step >= MaxFadeSteps
    THEN NoFade
    ELSE [f EXCEPT !.step = @ + 1]

\* process() of every plugin in a slot, in the order of the slots.
ProcessCalls(st) ==
    LET occupied == SelectSeq([i \in 1..MaxSlots |-> i], LAMBDA s : st[s] # "Empty")
    IN  [i \in 1..Len(occupied) |-> SlotCall("process", occupied[i])]

\* update() of the plugin in the active slot.
UpdateCalls(st) ==
    IF ActiveSlot(st) = 0 THEN <<>> ELSE <<SlotCall("update", ActiveSlot(st))>>

\* A plugin is installed in an empty slot and started.
Slot_install(s) ==
    /\ slotState[s] = "Empty"
    /\ slotState' = [slotState EXCEPT ![s] = "Inactive"]
    /\ slotOp' = "install"
    /\ slotCalls' = <<SlotCall("start", s)>>
    /\ UNCHANGED <<selectedSlot, rotationTimer, fade>>
    /\ UNCHANGED <<updateVars, systemVars, clientVars, tailVars, notLateVars>>

\* The plugin of a slot is stopped and removed; a fade that shows it ends.
Slot_uninstall(s) ==
    /\ slotState[s] # "Empty"
    /\ slotState' = [slotState EXCEPT ![s] = "Empty"]
    /\ rotationTimer' = IF slotState[s] = "Active" THEN "stopped" ELSE rotationTimer
    /\ fade' = IF s \in {fade.from, fade.to} THEN NoFade ELSE fade
    /\ slotOp' = "uninstall"
    /\ slotCalls' = <<SlotCall("stop", s)>>
    /\ UNCHANGED selectedSlot
    /\ UNCHANGED <<updateVars, systemVars, clientVars, tailVars, notLateVars>>

\* The time of the active slot is over.
RotationTimer_expire ==
    /\ rotationTimer = "running"
    /\ rotationTimer' = "expired"
    /\ UNCHANGED <<slotState, selectedSlot, fade, slotOp, slotCalls>>
    /\ UNCHANGED <<updateVars, systemVars, clientVars, tailVars, notLateVars>>

\* The scheduler in the main loop: a slot is selected if none is active or
\* the rotation timer has expired, then every plugin gets process() and the
\* plugin of the active slot gets update().
DisplayMgr_process ==
    LET outgoing == ActiveSlot(slotState)
        incoming == nextSlot(IF outgoing = 0 THEN selectedSlot ELSE outgoing, slotState)
        first == outgoing = 0 /\ incoming # 0
        rotate == outgoing # 0 /\ rotationTimer = "expired" /\ incoming # outgoing
        r == IF rotate
             THEN Rotate(outgoing, incoming, slotState)
             ELSE IF first
             THEN [st |-> [slotState EXCEPT ![incoming] = "Active"],
                   calls |-> <<SlotCall("active", incoming)>>,
                   fade |-> NoFade]
             ELSE [st |-> slotState, calls |-> <<>>, fade |-> FadeStep(fade)]
    IN  /\ slotState' = r.st
        /\ selectedSlot' = IF rotate \/ first THEN incoming ELSE selectedSlot
        /\ rotationTimer' = IF rotate \/ first \/ rotationTimer = "expired"
                            THEN (IF ActiveSlot(r.st) = 0 THEN "stopped" ELSE "running")
                            ELSE rotationTimer
        /\ fade' = r.fade
        /\ slotOp' = "process"
        /\ slotCalls' = r.calls \o ProcessCalls(r.st) \o UpdateCalls(r.st)
        /\ UNCHANGED <<updateVars, systemVars, clientVars, tailVars, notLateVars>>

NextSlots ==
    \/ \E s \in Slots : Slot_install(s)
    \/ \E s \in Slots : Slot_uninstall(s)
    \/ RotationTimer_expire
    \/ DisplayMgr_process

(***************************************************************************)
(* Uploads of several clients: their chunks and page requests reach        *)
(* uploadHandler and uploadPage from the queue in any interleaving.        *)
(***************************************************************************)
\* uploadHandler for the next chunk of the upload of client c.
Client_uploadHandler(c) ==
    /\ ~restartRequested
    /\ ~client[c].done
    /\ client[c].index < MaxChunks
    /\ \E filename \in Filenames, final \in BOOLEAN, beginOk \in BOOLEAN,
          writeOk \in BOOLEAN, endOk \in BOOLEAN, libAborts \in BOOLEAN :
           LET index == client[c].index
               u0 == [UploadState EXCEPT !.replies = {}]
               u1 == IF index = 0 THEN uploadBegin(u0, filename, beginOk) ELSE u0
               u2 == uploadChunk(u1, final, writeOk, endOk, libAborts)
               beginFailed == index = 0 /\ u1.error
               aborted == u1.running /\ u1.error
               writeFailed == u1.running /\ ~u1.error /\ u2.error
           IN  /\ index > 0 => filename = client[c].file
               /\ gIsUploadError' = u2.error
               /\ updateRunning' = u2.running
               /\ updateWritten' = u2.written
               /\ spiffsMounted' = u2.mounted
               /\ progressShown' = u2.shown
               /\ uploadReplies' = u2.replies
               /\ client' = [client EXCEPT ![c] =
                     [index |-> index + 1,
                      file |-> filename,
                      done |-> final,
                      paged |-> FALSE,
                      failed |-> @.failed \/ beginFailed \/ aborted \/ writeFailed,
                      sends |-> @.sends + (IF beginFailed THEN 1 ELSE 0)
                                        + (IF aborted THEN 1 ELSE 0),
                      restart |-> FALSE]]
    /\ UNCHANGED <<uploadPhase, uploadIndex, uploadFile, restartRequested, fsAccess>>
    /\ UNCHANGED <<webVars, pluginVars, queueVars, boots, chunkVars, settingsVars>>
    /\ UNCHANGED <<hostnameVars, storeVars, widgetVars, updateVars, systemVars, slotVars, tailVars>>

\* uploadPage for the request of client c, after its final chunk.
Client_uploadPage(c) ==
    /\ ~restartRequested
    /\ client[c].done
    /\ ~client[c].paged
    /\ uploadReplies' = {IF gIsUploadError THEN "Error" ELSE "Ok"}
    /\ restartRequested' = ~gIsUploadError
    /\ client' = [client EXCEPT ![c].paged = TRUE,
                                ![c].sends = @ + 1,
                                ![c].restart = ~gIsUploadError]
    /\ UNCHANGED <<gIsUploadError, updateRunning, updateWritten, spiffsMounted,
                   progressShown, uploadPhase, uploadIndex, uploadFile, fsAccess>>
    /\ UNCHANGED <<webVars, pluginVars, queueVars, boots, chunkVars, settingsVars>>
    /\ UNCHANGED <<hostnameVars, storeVars, widgetVars, updateVars, systemVars, slotVars, tailVars>>

\* The handlers that read or write a file: settingsPage for a GET and
\* handleNotFound send a file of the filesystem, both dequeued by
\* Pages::process; the plugin saves, loads or removes its configuration file.
FileHandlers == {"settingsPage", "handleNotFound", "saveConfiguration"}

\* The access of a handler to the filesystem: none of them looks whether
\* the filesystem is mounted.
FileAccess(handler) == [by |-> handler, mounted |-> spiffsMounted]

\* A handler that reads or writes a file runs, between any two calls for
\* the uploads.
Client_fileHandler(handler) ==
    /\ ~restartRequested
    /\ fsAccess' = FileAccess(handler)
    /\ fsAccess' # fsAccess
    /\ UNCHANGED client
    /\ UNCHANGED uploadVars
    /\ UNCHANGED <<webVars, pluginVars, queueVars, boots, chunkVars, settingsVars>>
    /\ UNCHANGED <<hostnameVars, storeVars, widgetVars, updateVars, systemVars, slotVars, tailVars>>

\* ---- Sequences of calls on one plugin instance, one call at a time ----

\* What a call on the plugin leaves alone besides the plugin's members.
notCallVars ==
    <<webVars, uploadVars, queueVars, boots, chunkVars, settingsVars,
      hostnameVars, storeVars, widgetVars, updateVars, systemVars, slotVars, clientVars,
      useVars, percentVars, assignVars>>

\* SunrisePlugin::start: the location of the configuration file if
\* loadConfiguration succeeds, else saveConfiguration of the location in memory.
Call_start ==
    /\ plugin # "none"
    /\ plugin' = "started"
    /\ \E saved \in BOOLEAN :
           /\ m_location' = IF configFile # NoFile THEN configFile ELSE m_location
           /\ configFile' = IF configFile = NoFile /\ saved THEN m_location ELSE configFile
           /\ pluginCall' = [pluginCall EXCEPT !.op = "start", !.changed = FALSE,
                                                !.wrote = (configFile = NoFile /\ saved)]
    /\ startHttpRequest
    /\ UNCHANGED <<m_xMutex, lockVars, ctlVars, m_relevantResponsePart, m_textWidget,
                   m_iconCanvas, m_textCanvas, m_httpResponseReceived, notCallVars>>

\* SunrisePlugin::stop: the timer is stopped, the configuration file removed
\* if FILESYSTEM.remove succeeds.
Call_stop ==
    /\ plugin # "none"
    /\ plugin' = "stopped"
    /\ m_requestTimer' = "stopped"
    /\ \E removed \in BOOLEAN :
           configFile' = IF removed THEN NoFile ELSE configFile
    /\ pluginCall' = [pluginCall EXCEPT !.op = "stop", !.changed = FALSE, !.wrote = FALSE]
    /\ UNCHANGED <<m_xMutex, lockVars, ctlVars, m_location, m_relevantResponsePart,
                   m_textWidget, m_iconCanvas, m_textCanvas, m_httpResponseReceived,
                   requestPending, notCallVars>>

\* SunrisePlugin::setLocation: a location that differs is taken over and
\* saveConfiguration is called, its result is dropped. Before the first start
\* m_configurationFilename is empty and no file can be written.
Call_setLocation(location) ==
    /\ plugin # "none"
    /\ \E saved \in BOOLEAN :
           LET changed == location # m_location
               wrote == changed /\ saved /\ plugin # "installed"
           IN  /\ m_location' = IF changed THEN location ELSE m_location
               /\ configFile' = IF wrote THEN location ELSE configFile
               /\ pluginCall' = [pluginCall EXCEPT !.op = "setLocation", !.set = location,
                                                    !.changed = changed, !.wrote = wrote]
    /\ UNCHANGED <<plugin, m_xMutex, lockVars, ctlVars, m_relevantResponsePart, m_textWidget,
                   m_iconCanvas, m_textCanvas, m_requestTimer, m_httpResponseReceived,
                   requestPending, notCallVars>>

\* SunrisePlugin::getLocation: longitude and latitude are copied out.
Call_getLocation ==
    /\ plugin # "none"
    /\ pluginCall' = [pluginCall EXCEPT !.op = "getLocation", !.result = m_location,
                                         !.changed = FALSE, !.wrote = FALSE]
    /\ UNCHANGED <<pluginVars, notCallVars>>

\* Mutant of Call_process: the timer is started again only if the request
\* was started.
Call_processOnce ==
    /\ plugin # "none"
    /\ \E isTimeout \in BOOLEAN, status \in BOOLEAN :
           LET expired == m_requestTimer # "stopped" /\ isTimeout
           IN  /\ requestPending' = (requestPending \/ (expired /\ status))
               /\ m_requestTimer' = IF ~expired THEN m_requestTimer
                                     ELSE IF status THEN "long" ELSE "stopped"
               /\ pluginCall' = [pluginCall EXCEPT !.op = "process", !.changed = FALSE,
                                                    !.wrote = FALSE, !.expired = expired,
                                                    !.request = (expired /\ status)]
    /\ UNCHANGED <<plugin, m_xMutex, lockVars, ctlVars, m_location, m_relevantResponsePart,
                   m_textWidget, m_iconCanvas, m_textCanvas, m_httpResponseReceived,
                   configFile, notCallVars>>

\* SunrisePlugin::process: if the timer is running and has expired,
\* startHttpRequest is called and the timer is started with UPDATE_PERIOD if
\* it returned true, with UPDATE_PERIOD_SHORT if not.
Call_process ==
    /\ plugin # "none"
    /\ \E isTimeout \in BOOLEAN, status \in BOOLEAN :
           LET expired == m_requestTimer # "stopped" /\ isTimeout
           IN  /\ requestPending' = (requestPending \/ (expired /\ status))
               /\ m_requestTimer' = IF ~expired THEN m_requestTimer
                                     ELSE IF status THEN "long" ELSE "short"
               /\ pluginCall' = [pluginCall EXCEPT !.op = "process", !.changed = FALSE,
                                                    !.wrote = FALSE, !.expired = expired,
                                                    !.request = (expired /\ status)]
    /\ UNCHANGED <<plugin, m_xMutex, lockVars, ctlVars, m_location, m_relevantResponsePart,
                   m_textWidget, m_iconCanvas, m_textCanvas, m_httpResponseReceived,
                   configFile, notCallVars>>

\* SunrisePlugin::active: the canvases are created unless new returns nullptr.
Call_active ==
    /\ plugin # "none"
    /\ \E ok \in BOOLEAN : m_iconCanvas' = (m_iconCanvas \/ ok)
    /\ \E ok \in BOOLEAN : m_textCanvas' = (m_textCanvas \/ ok)
    /\ pluginCall' = [pluginCall EXCEPT !.op = "active", !.changed = FALSE, !.wrote = FALSE]
    /\ UNCHANGED <<plugin, m_xMutex, lockVars, ctlVars, m_location, m_relevantResponsePart,
                   m_textWidget, m_requestTimer, m_httpResponseReceived, envVars,
                   notCallVars>>

\* SunrisePlugin::inactive returns at once.
Call_inactive ==
    /\ plugin # "none"
    /\ pluginCall' = [pluginCall EXCEPT !.op = "inactive", !.changed = FALSE, !.wrote = FALSE]
    /\ UNCHANGED <<pluginVars, notCallVars>>

\* ---- The functions that open and close the settings store ----

\* settingsPage is called by Pages::process in the main loop, the captive
\* portal handler and the template functions by the web server in its task,
\* addCurrentTimezoneValues by the response callback of the HTTP client.
SettingsUsers(t) ==
    IF t = MainLoop THEN {"settingsPage"}
    ELSE IF t = WebTask THEN {"handleRequest", "getSettingsData", "getSSID"}
    ELSE {"addCurrentTimezoneValues"}

\* The functions that go through the list of settings while the store is open.
SettingsLoops == {"settingsPage", "getSettingsData"}

notUseVars ==
    <<callVars, percentVars, assignVars, updateVars, systemVars, slotVars, clientVars,
      notLateVars>>

\* The function is called. settingsPage comes to Settings::open for an
\* authenticated POST with arguments, handleRequest for an authenticated POST
\* with ssid and passphrase, the other functions always.
Use_call(t, fn) ==
    /\ settingsUse[t].pc = "idle"
    /\ \E authOK \in BOOLEAN, isPost \in BOOLEAN, hasArgs \in BOOLEAN :
           LET opensStore == IF fn \in {"settingsPage", "handleRequest"}
                             THEN authOK /\ isPost /\ hasArgs
                             ELSE TRUE
           IN  settingsUse' = [settingsUse EXCEPT ![t] =
                   [NoUse EXCEPT !.fn = fn,
                                 !.pc = IF opensStore THEN "open" ELSE "return"]]
    /\ UNCHANGED notUseVars

\* Settings::open returns true or false; after false every function skips
\* the branch that holds close.
Use_open(t) ==
    /\ settingsUse[t].pc = "open"
    /\ \E openOk \in BOOLEAN :
           settingsUse' = [settingsUse EXCEPT ![t] =
               IF openOk
               THEN [@ EXCEPT !.opens = @ + 1, !.pc = "body"]
               ELSE [@ EXCEPT !.failed = TRUE, !.pc = "return"]]
    /\ UNCHANGED notUseVars

\* Mutant of Use_body: settingsPage returns when storeSetting rejects a value.
Use_bodyReturnsOnError(t) ==
    /\ settingsUse[t].pc = "body"
    /\ LET u == settingsUse[t]
       IN  IF u.fn \in SettingsLoops /\ u.index < KEY_VALUE_PAIR_NUM /\ ~u.isError
           THEN \E hasArg \in BOOLEAN, status \in BOOLEAN :
                    LET isError == u.fn = "settingsPage" /\ hasArg /\ ~status
                    IN  settingsUse' = [settingsUse EXCEPT ![t] =
                            [u EXCEPT !.index = @ + 1, !.isError = isError,
                                      !.pc = IF isError THEN "return" ELSE "body"]]
           ELSE settingsUse' = [settingsUse EXCEPT ![t] = [u EXCEPT !.pc = "close"]]
    /\ UNCHANGED notUseVars

\* Between open and close: one round of the loop over the list of settings
\* (in settingsPage storeSetting for an argument that is present, a rejected
\* value ends the loop), or the values are read or set; then close is next.
Use_body(t) ==
    /\ settingsUse[t].pc = "body"
    /\ LET u == settingsUse[t]
       IN  IF u.fn \in SettingsLoops /\ u.index < KEY_VALUE_PAIR_NUM /\ ~u.isError
           THEN \E hasArg \in BOOLEAN, status \in BOOLEAN :
                    settingsUse' = [settingsUse EXCEPT ![t] =
                        [u EXCEPT !.index = @ + 1,
                                  !.isError = (u.fn = "settingsPage" /\ hasArg /\ ~status)]]
           ELSE settingsUse' = [settingsUse EXCEPT ![t] = [u EXCEPT !.pc = "close"]]
    /\ UNCHANGED notUseVars

\* Settings::close, after it the answer is built.
Use_close(t) ==
    /\ settingsUse[t].pc = "close"
    /\ settingsUse' = [settingsUse EXCEPT ![t] = [@ EXCEPT !.closes = @ + 1, !.pc = "return"]]
    /\ UNCHANGED notUseVars

\* The function returns.
Use_return(t) ==
    /\ settingsUse[t].pc = "return"
    /\ settingsUse' = [settingsUse EXCEPT ![t] = NoUse]
    /\ UNCHANGED notUseVars

NextUse ==
    \E t \in PluginTasks :
        \/ \E fn \in SettingsUsers(t) : Use_call(t, fn)
        \/ Use_open(t)
        \/ Use_body(t)
        \/ Use_close(t)
        \/ Use_return(t)

\* ---- The progress percentage in 32 bit unsigned arithmetic ----

\* Numbers of bytes that are tried for progress and total: small ones, the
\* limits of 8 and 16 bits, sizes of images, and the sizes around the largest
\* one whose product with 100 fits into 32 bits.
ByteCounts ==
    {0, 1, 2, 3, 99, 100, 255, 256, 65535, 65536, 1000000, 4194304, 16777216,
     42949672, 42949673, 85899346, 1073741824}

\* progress * 100 of unsigned 32 bit numbers, as the two 16 bit halves of the
\* 32 bits that are kept, and whether bits were lost.
mul100(progress) ==
    LET lo == (progress % 65536) * 100
        hi == (progress \div 65536) * 100 + (lo \div 65536)
    IN  [hi |-> hi % 65536, lo |-> lo % 65536, overflow |-> hi >= 65536]

\* The unsigned division x / total of a 32 bit number given by its halves,
\* for 0 < total <= 2^30: the upper 31 bits are divided first.
udiv(x, total) ==
    LET half == x.hi * 32768 + (x.lo \div 2)
        bit == x.lo % 2
    IN  2 * (half \div total) + ((2 * (half % total) + bit) \div total)

\* What a division by zero leaves in the variable, if the task goes on at all.
UndefinedQuotients == {0, 100, 255, 256}

\* (progress * 100u) / total, and the static_cast<uint8_t> of it that the
\* progress bar gets.
progressPercent(fn, progress, total, undefined) ==
    IF total = 0
    THEN [fn |-> fn, progress |-> progress, total |-> total, overflow |-> FALSE,
          divByZero |-> TRUE, percent |-> undefined, shown |-> undefined % 256]
    ELSE LET product == mul100(progress)
             quotient == udiv(product, total)
         IN  [fn |-> fn, progress |-> progress, total |-> total,
              overflow |-> product.overflow, divByZero |-> FALSE,
              percent |-> quotient, shown |-> quotient % 256]

notPercentVars ==
    <<callVars, useVars, assignVars, updateVars, systemVars, slotVars, clientVars,
      notLateVars>>

\* UpdateMgr::onProgress(progress, total), called by ArduinoOTA.
Percent_onProgress(progress, total) ==
    /\ progress <= total
    /\ \E undefined \in UndefinedQuotients :
           percentCall' = progressPercent("onProgress", progress, total, undefined)
    /\ UNCHANGED notPercentVars

\* uploadHandler after Update.write: (Update.progress() * 100) / Update.size()
\* is handed to updateProgress.
Percent_uploadHandler(progress, size) ==
    /\ progress <= size
    /\ \E undefined \in UndefinedQuotients :
           percentCall' = progressPercent("uploadHandler", progress, size, undefined)
    /\ UNCHANGED notPercentVars

NextPercent ==
    \E progress \in ByteCounts, total \in ByteCounts :
        \/ Percent_onProgress(progress, total)
        \/ Percent_uploadHandler(progress, total)

\* ---- Assignment of deferred requests ----

\* The two objects of an assignment.
ObjectNames == {"a", "b"}

\* Addresses: nullptr, the web server's request objects and websocket
\* clients, and the payload arrays of object a, of object b and the array
\* that an assignment allocates.
NullPtr == 0
Addresses == {1, 2}
ArrayOf == [a |-> 1, b |-> 2, assigned |-> 3]

\* The deferred requests as their constructors make them: a page request, an
\* upload request, a websocket request (its m_request is nullptr). The
\* payload is copied into an array of the object, m_array is its address.
NewPage(name, request, handler) ==
    [kind |-> "page", m_request |-> request, m_pageHandler |-> handler]

NewUpload(name, request, handler, filename, index, data, final) ==
    [kind |-> "upload", m_request |-> request, m_uploadHandler |-> handler,
     m_filename |-> filename, m_index |-> index,
     m_data |-> copy(data, Len(data), TRUE).m_data,
     m_len |-> copy(data, Len(data), TRUE).m_len,
     m_array |-> IF data # NullData THEN ArrayOf[name] ELSE NullPtr,
     m_final |-> final]

NewWs(name, wsClient, handler, data) ==
    [kind |-> "ws", m_request |-> NullPtr, m_server |-> 1, m_client |-> wsClient,
     m_data |-> copy(data, Len(data), TRUE).m_data,
     m_len |-> copy(data, Len(data), TRUE).m_len,
     m_array |-> IF data # NullData THEN ArrayOf[name] ELSE NullPtr,
     m_wsHandler |-> handler]

ReqHandlers == {"uploadPage", "handleNotFound"}

\* The requests of one kind that object name can be.
ObjectsOf(reqKind, name) ==
    IF reqKind = "page"
    THEN {NewPage(name, r, h) : r \in Addresses, h \in ReqHandlers}
    ELSE IF reqKind = "upload"
    THEN {NewUpload(name, r, "uploadHandler", f, i, d, i = 1) :
              r \in Addresses, f \in Filenames, i \in {0, 1},
              d \in Payloads \cup {NullData}}
    ELSE {NewWs(name, c, h, d) :
              c \in Addresses, h \in ReqHandlers, d \in Payloads \cup {NullData}}

\* WebReq::operator=
WebReq_assign(self, other) == [self EXCEPT !.m_request = other.m_request]

\* WebPageReq::operator=: the page handler is assigned.
WebPageReq_assign(self, other) ==
    [self EXCEPT !.m_pageHandler = other.m_pageHandler]

\* WebUploadReq::operator=: the array of the target is deleted, the members
\* of the class are assigned and the payload is copied.
WebUploadReq_assign(self, other, allocOk) ==
    LET copied == copy(other.m_data, other.m_len, allocOk)
    IN  [self EXCEPT !.m_uploadHandler = other.m_uploadHandler,
                     !.m_filename = other.m_filename,
                     !.m_index = other.m_index,
                     !.m_final = other.m_final,
                     !.m_data = copied.m_data,
                     !.m_len = copied.m_len,
                     !.m_array = IF copied.m_data # NullData THEN ArrayOf.assigned ELSE NullPtr]

\* WebWsReq::operator=
WebWsReq_assign(self, other, allocOk) ==
    LET copied == copy(other.m_data, other.m_len, allocOk)
    IN  [self EXCEPT !.m_server = other.m_server,
                     !.m_client = other.m_client,
                     !.m_wsHandler = other.m_wsHandler,
                     !.m_data = copied.m_data,
                     !.m_len = copied.m_len,
                     !.m_array = IF copied.m_data # NullData THEN ArrayOf.assigned ELSE NullPtr]

notAssignVars ==
    <<callVars, useVars, percentVars, updateVars, systemVars, slotVars, clientVars,
      notLateVars>>

\* Two requests of one kind are constructed.
Assign_construct(reqKind) ==
    /\ lastAssign.op = "none"
    /\ \E a \in ObjectsOf(reqKind, "a"), b \in ObjectsOf(reqKind, "b") :
           reqObjects' = [a |-> a, b |-> b]
    /\ lastAssign' = [NoAssign EXCEPT !.op = "construct"]
    /\ UNCHANGED notAssignVars

\* dst = src with the operator= of the class of the two objects; with
\* this == &other nothing is done.
Assign_assign(dst, src) ==
    /\ lastAssign.op = "construct"
    /\ \E allocOk \in BOOLEAN :
           LET self == reqObjects[dst]
               other == reqObjects[src]
               assigned == IF self.kind = "page" THEN WebPageReq_assign(self, other)
                           ELSE IF self.kind = "upload"
                           THEN WebUploadReq_assign(self, other, allocOk)
                           ELSE WebWsReq_assign(self, other, allocOk)
           IN  /\ reqObjects' = IF dst = src THEN reqObjects
                                 ELSE [reqObjects EXCEPT ![dst] = assigned]
               /\ lastAssign' = [op |-> "assign", dst |-> dst, src |-> src,
                                 before |-> reqObjects, allocOk |-> allocOk]
    /\ UNCHANGED notAssignVars

\* dst = src through references to the base class: WebReq::operator=.
Assign_base(dst, src) ==
    /\ lastAssign.op = "construct"
    /\ reqObjects' = IF dst = src THEN reqObjects
                      ELSE [reqObjects EXCEPT ![dst] = WebReq_assign(@, reqObjects[src])]
    /\ lastAssign' = [op |-> "base", dst |-> dst, src |-> src,
                      before |-> reqObjects, allocOk |-> TRUE]
    /\ UNCHANGED notAssignVars

NextAssign ==
    \/ \E reqKind \in {"page", "upload", "ws"} : Assign_construct(reqKind)
    \/ \E dst \in ObjectNames, src \in ObjectNames : Assign_assign(dst, src)
    \/ \E dst \in ObjectNames, src \in ObjectNames : Assign_base(dst, src)

NextCalls ==
    \/ SunrisePlugin
    \/ Call_start
    \/ Call_stop
    \/ Call_process
    \/ Call_active
    \/ Call_inactive
    \/ \E location \in Locations : Call_setLocation(location)
    \/ Call_getLocation

NextClients ==
    \/ \E c \in Clients : Client_uploadHandler(c)
    \/ \E c \in Clients : Client_uploadPage(c)
    \/ \E handler \in FileHandlers : Client_fileHandler(handler)

Init == InitWeb /\ InitPlugin /\ InitUpload /\ InitAux

Next == NextWeb /\ UNCHANGED <<pluginVars, uploadVars, auxVars>>

Spec == Init /\ [][Next]_vars

SpecPlugin == Init /\ [][NextPlugin]_vars /\ FairPlugin

\* The main loop: the plugin calls and the queue drain in turn.
NextLoop == NextPlugin \/ QueueDrain

SpecLoop == InitSetupDone /\ [][NextLoop]_vars

SpecUpload == Init /\ [][NextUpload]_vars

SpecQueues == Init /\ [][NextQueues]_vars

\* ESP.restart(), or a power cycle: the plugin is constructed anew, the
\* configuration file stays.
ESP_restart ==
    /\ plugin # "none"
    /\ boots < MaxBoots
    /\ boots' = boots + 1
    /\ plugin' = "none"
    /\ m_xMutex' = "nullptr"
    /\ mutexHolder' = NoTask
    /\ mutexCount' = 0
    /\ method' = [t \in PluginTasks |-> "none"]
    /\ at' = [t \in PluginTasks |-> "idle"]
    /\ arg' = DefaultLocation
    /\ m_location' = DefaultLocation
    /\ m_relevantResponsePart' = ""
    /\ m_textWidget' = ""
    /\ m_iconCanvas' = FALSE
    /\ m_textCanvas' = FALSE
    /\ m_requestTimer' = "stopped"
    /\ m_httpResponseReceived' = FALSE
    /\ requestPending' = FALSE
    /\ UNCHANGED <<configFile, webVars, uploadVars, queueVars, chunkVars, settingsVars, coreVars>>

\* The plugin over several runs of the device.
NextRestart == NextPlugin \/ ESP_restart

SpecRestart == Init /\ [][NextRestart]_vars

\* One upload, from the callback of the web server to uploadHandler.
SpecChunks == Init /\ [][NextChunks]_vars

\* The tasks and the handlers that open the settings store or a file.
SpecSettings == Init /\ [][NextSettings]_vars

\* isValidHostname on the strings up to MaxHostLen characters.
SpecHostname == Init /\ [][NextHostname]_vars

\* One POST to the settings page.
SpecStore == Init /\ [][NextStore]_vars

\* Bitmap widgets that are constructed, copied, set and destroyed.
SpecWidgets == Init /\ [][NextWidgets]_vars

\* Over-the-air updates over restarts of the device.
SpecUpdate == Init /\ [][NextUpdate]_vars

\* The system state machine, tick by tick.
SpecSystem == Init /\ [][NextSystem]_vars

\* The slots of the display: plugins come and go, the scheduler rotates.
SpecSlots == Init /\ [][NextSlots]_vars

\* The uploads of several clients, call by call.
SpecClients == Init /\ [][NextClients]_vars
SpecCalls == Init /\ [][NextCalls]_vars
SpecUse == Init /\ [][NextUse]_vars
SpecPercent == Init /\ [][NextPercent]_vars
SpecAssign == Init /\ [][NextAssign]_vars

(***************************************************************************)
(* Helpers of the claims about the web request pipeline.                   *)
(***************************************************************************)

\* A producer is still inside addItem with this item.
InAddItem(id) == \E p \in Producers : prodPc[p] # "idle" /\ prodItem[p] = id

\* The main loop holds this item between getItem and the end of process.
InProcess(id) == mainPc \in {"call", "delete"} /\ msg = id

(***************************************************************************)
(* C1: the items returned by the successful getItem calls are the items of *)
(* the successful addItem calls, in the order in which those succeeded:    *)
(* what was sent is what was received followed by what is still pending,   *)
(* nothing twice, and the item handed to process is the last one received. *)
(***************************************************************************)
C1_Fifo ==
    /\ sent = received \o m_hQueue.items
    /\ NoDuplicates(sent)
    /\ NoDuplicates(received)
    /\ mainPc \in {"call", "delete"} =>
          /\ Len(received) > 0
          /\ msg = received[Len(received)]

\* Request 2 blocked in addItem while request 3 of the other task got in:
\* the order of success (1, 3, 2) is the order of delivery.
C1_Witness ==
    /\ received = <<1, 3>>
    /\ m_hQueue.items = <<2>>

(***************************************************************************)
(* C2: an addItem whose block time expires while the queue is full returns *)
(* false (the producer answers 507) and leaves the queue as it was, with   *)
(* the same items in the same order; addItem on a created queue fails in   *)
(* no other way; and the number of pending items never exceeds the         *)
(* capacity.                                                               *)
(***************************************************************************)
\* The step in which addItem returns from its wait without having been made
\* ready by a getItem.
C2_TimedOutStep(p) ==
    /\ prodPc[p] = "addItemWait"
    /\ prodPc'[p] = "idle"

\* The step in which the producer of the allocated request id learns that
\* addItem failed on a created queue.
C2_RejectedStep(id) ==
    /\ m_hQueue.valid
    /\ heap'[id] = "live"
    /\ "507" \notin replies[id]
    /\ "507" \in replies'[id]

C2_FullQueueRejects ==
    /\ [][\A p \in Producers :
             (C2_TimedOutStep(p) /\ Len(m_hQueue.items) = m_hQueue.cap) =>
                /\ waited[p] = WAIT_TIME
                /\ m_hQueue' = m_hQueue
                /\ sent' = sent
                /\ "507" \in replies'[prodItem[p]]]_vars
    /\ [][\A id \in ReqIds : C2_RejectedStep(id) =>
             /\ Len(m_hQueue.items) = m_hQueue.cap
             /\ m_hQueue' = m_hQueue
             /\ \E p \in Producers :
                   /\ prodItem[p] = id
                   /\ C2_TimedOutStep(p)
                   /\ waited[p] = WAIT_TIME]_vars
    /\ [](Len(m_hQueue.items) <= m_hQueue.cap)

\* Capacity 2: requests 1 and 2 are pending, request 3 was rejected.
C2_Witness ==
    /\ m_hQueue.valid /\ m_hQueue.cap = 2
    /\ m_hQueue.items = <<1, 2>>
    /\ replies[3] = {"507"}
    /\ heap[3] = "live"

(***************************************************************************)
(* C3: a getItem that waited on an empty queue until its block time        *)
(* expired returns false, writes nothing to the caller's item (msg stays   *)
(* nullptr), and leaves the queue empty and valid; every getItem that      *)
(* succeeds after such a failure delivers the oldest item not delivered    *)
(* yet.                                                                    *)
(***************************************************************************)
C3_TimedOutStep ==
    /\ mainPc = "getItemWait"
    /\ mainPc' = "idle"

C3_DeliveryStep ==
    /\ getFailedAt >= 0
    /\ Len(received') = Len(received) + 1

C3_EmptyQueueTimeout ==
    [][/\ C3_TimedOutStep =>
             /\ waited[MainLoop] = WAIT_TIME
             /\ msg = NullReq /\ msg' = NullReq
             /\ m_hQueue.valid /\ QueueEmpty(m_hQueue)
             /\ m_hQueue' = m_hQueue
             /\ received' = received
       /\ C3_DeliveryStep =>
             /\ msg' = sent[Len(received) + 1]
             /\ mainPc' = "call"]_vars

\* A getItem failed on the empty queue, and an item added later was
\* delivered and is about to be executed.
C3_Witness ==
    /\ getFailedAt >= 0
    /\ Len(received) > getFailedAt
    /\ mainPc = "call"
    /\ msg = sent[getFailedAt + 1]

(***************************************************************************)
(* C4: every request that was enqueued is executed at most once and freed  *)
(* at most once, never touched after it was freed; while it is pending it  *)
(* is live and untouched, and once process is done with it, it was         *)
(* executed exactly once and then freed exactly once, whatever the handler *)
(* answered.                                                               *)
(***************************************************************************)
C4_ExactlyOnce ==
    /\ ~useAfterFree
    /\ NoDuplicates(received)
    /\ \A id \in ReqIds :
          /\ calls[id] <= 1 /\ frees[id] <= 1
          /\ id \notin Range(sent) => calls[id] = 0 /\ frees[id] = 0
          /\ id \in Range(m_hQueue.items) =>
                heap[id] = "live" /\ calls[id] = 0 /\ frees[id] = 0
          /\ id \in Range(received) =>
                IF InProcess(id)
                THEN /\ heap[id] = "live" /\ frees[id] = 0
                     /\ calls[id] = (IF mainPc = "call" THEN 0 ELSE 1)
                ELSE heap[id] = "freed" /\ calls[id] = 1 /\ frees[id] = 1

\* Two requests were executed and freed, one of them with a handler that
\* reported an error.
C4_Witness ==
    \E i, j \in ReqIds :
        /\ i # j
        /\ heap[i] = "freed" /\ calls[i] = 1 /\ frees[i] = 1
        /\ heap[j] = "freed" /\ calls[j] = 1 /\ frees[j] = 1
        /\ "error" \in replies[i] /\ "ok" \in replies[j]

(***************************************************************************)
(* C5: every allocated request object is queued, in the hands of a task    *)
(* (inside addItem or inside process), or freed: when addItem failed, the  *)
(* producer disposed of the object.                                        *)
(***************************************************************************)
C5_NoLeak ==
    \A id \in ReqIds :
        heap[id] = "live" =>
            \/ id \in Range(m_hQueue.items)
            \/ InAddItem(id)
            \/ InProcess(id)

(***************************************************************************)
(* C6: a request that passed authentication and left its producer is       *)
(* either enqueued (then it is pending, in execution or executed, and was  *)
(* not answered 507) or it is not enqueued, answered with 507 only and its *)
(* handler never ran; a producer has never waited longer than WAIT_TIME,   *)
(* and one that has waited WAIT_TIME can return at once.                   *)
(***************************************************************************)
C6_Left(id) == id <= nextReq /\ ~InAddItem(id) /\ "401" \notin replies[id]

C6_FailFast ==
    /\ \A id \in ReqIds : C6_Left(id) =>
          IF id \in Range(sent)
          THEN /\ "507" \notin replies[id]
               /\ \/ id \in Range(m_hQueue.items)
                  \/ InProcess(id)
                  \/ calls[id] = 1
          ELSE /\ replies[id] = {"507"}
               /\ calls[id] = 0
    /\ \A id \in ReqIds : "401" \in replies[id] =>
          replies[id] = {"401"} /\ calls[id] = 0 /\ id \notin Range(sent)
    /\ \A p \in Producers :
          /\ waited[p] <= WAIT_TIME
          /\ (prodPc[p] = "addItemWait" /\ waited[p] = WAIT_TIME) =>
                ENABLED AddItemTimeout(p)

\* Both outcomes: request i was enqueued and executed, request j was
\* rejected with 507 after its producer had waited.
C6_Witness ==
    \E i, j \in ReqIds :
        /\ i \in Range(sent) /\ calls[i] = 1
        /\ j \notin Range(sent) /\ replies[j] = {"507"} /\ heap[j] = "live"
        /\ m_hQueue.valid

(* C14: a request that fails authentication is answered with the           *)
(* authentication challenge and nothing else: in that step no request      *)
(* object is allocated and the queue, the list of enqueued items and every *)
(* task's position are unchanged; such a request is never in the queue and *)
(* no handler is ever called for it.                                       *)
C14_Challenged(id) == "401" \in replies[id]
C14_OnlyAuthenticated ==
    /\ [](\A id \in ReqIds : C14_Challenged(id) =>
              /\ replies[id] = {"401"}
              /\ heap[id] = "unalloc"
              /\ id \notin Range(sent)
              /\ id \notin Range(m_hQueue.items)
              /\ msg # id
              /\ calls[id] = 0)
    /\ [][\A id \in ReqIds : (~C14_Challenged(id) /\ "401" \in replies'[id]) =>
              /\ m_hQueue' = m_hQueue
              /\ sent' = sent
              /\ prodPc' = prodPc
              /\ mainPc' = mainPc]_vars

C14_Witness ==
    /\ replies[2] = {"401"}
    /\ calls[1] = 1
    /\ m_hQueue.items = <<3>>

(***************************************************************************)
(* The two queues.                                                         *)
(***************************************************************************)
OtherSurface(s) == CHOOSE t \in Surfaces : t # s

\* The step is the call op of the TaskDecoupler of surface s.
CallOf(s, op) == lastOp'.surface = s /\ lastOp'.op = op

(* C18: a call of init, addItem or getItem on the queue of one surface      *)
(* leaves the queue of the other surface and the item variable of its       *)
(* consumer unchanged, and whether addItem or getItem succeeds is decided   *)
(* by the state of the called queue alone (also when the other is full).    *)
C18_IndependentQueues ==
    [][\A s \in Surfaces :
          /\ lastOp'.surface = s =>
                 /\ decoupler'[OtherSurface(s)] = decoupler[OtherSurface(s)]
                 /\ out'[OtherSurface(s)] = out[OtherSurface(s)]
          /\ CallOf(s, "addItem") =>
                 lastOp'.ok = (decoupler[s].valid /\ Len(decoupler[s].items) < decoupler[s].cap)
          /\ CallOf(s, "getItem") =>
                 lastOp'.ok = (decoupler[s].valid /\ Len(decoupler[s].items) > 0)]_vars

C18_Witness ==
    /\ decoupler["pages"].valid
    /\ QueueFull(decoupler["pages"])
    /\ rejectedFull["pages"]
    /\ lastOp = [surface |-> "portal", op |-> "addItem", ok |-> TRUE, ticks |-> 0, arg |-> 3]
    /\ decoupler["portal"].items = <<3>>

(* C19: an init that returns true leaves an empty queue of the capacity     *)
(* given, whatever was pending; no item that was pending at an init is in   *)
(* the queue or returned by getItem afterwards; addItem and getItem keep    *)
(* the capacity, and addItem on the queue fails exactly when it holds as    *)
(* many items as the capacity.                                              *)
C19_InitDiscards ==
    /\ [](\A s \in Surfaces :
              /\ Range(decoupler[s].items) \cap discarded[s] = {}
              /\ Len(decoupler[s].items) <= decoupler[s].cap)
    /\ [][\A s \in Surfaces :
              /\ (CallOf(s, "init") /\ lastOp'.ok) =>
                     decoupler'[s] = [valid |-> TRUE, cap |-> lastOp'.arg, items |-> <<>>]
              /\ (CallOf(s, "getItem") /\ lastOp'.ok) =>
                     out'[s] \notin discarded'[s] /\ out'[s] = Head(decoupler[s].items)
              /\ (CallOf(s, "addItem") \/ CallOf(s, "getItem")) =>
                     decoupler'[s].cap = decoupler[s].cap
              /\ (CallOf(s, "addItem") /\ decoupler[s].valid) =>
                     (~lastOp'.ok <=> Len(decoupler[s].items) = decoupler[s].cap)]_vars

C19_Witness ==
    /\ discarded["pages"] = {1}
    /\ rejectedFull["pages"]
    /\ lastOp = [surface |-> "pages", op |-> "getItem", ok |-> TRUE, ticks |-> 0, arg |-> 2]

(* C20: on a queue that was never created, or whose creation failed in      *)
(* init, addItem and getItem return false at once (no tick of waiting) and  *)
(* change neither the queue nor the caller's item variable; a failed init   *)
(* leaves no queue; an init that succeeds later gives an empty queue on     *)
(* which addItem succeeds at once and getItem returns what was added.       *)
C20_NoQueue ==
    [][\A s \in Surfaces :
          /\ ((CallOf(s, "addItem") \/ CallOf(s, "getItem")) /\ ~decoupler[s].valid) =>
                 /\ ~lastOp'.ok
                 /\ lastOp'.ticks = 0
                 /\ decoupler' = decoupler
                 /\ IF lastOp'.op = "getItem" THEN out'[s] = NullReq ELSE out' = out
          /\ CallOf(s, "init") =>
                 /\ lastOp'.ok = decoupler'[s].valid
                 /\ decoupler'[s].items = <<>>
          /\ (CallOf(s, "addItem") /\ decoupler[s].valid /\ QueueEmpty(decoupler[s])) =>
                 /\ lastOp'.ok /\ lastOp'.ticks = 0
                 /\ decoupler'[s].items = <<lastOp'.arg>>
          /\ (CallOf(s, "getItem") /\ decoupler[s].valid /\ ~QueueEmpty(decoupler[s])) =>
                 /\ lastOp'.ok /\ lastOp'.ticks = 0
                 /\ out'[s] = Head(decoupler[s].items)]_vars

C20_Witness ==
    /\ rejectedNull["portal"]
    /\ lastOp = [surface |-> "portal", op |-> "getItem", ok |-> TRUE, ticks |-> 0, arg |-> 2]
    /\ out["portal"] = 2

(***************************************************************************)
(* The chunks of an upload.                                                *)
(***************************************************************************)
(* C11: the upload handler is called with exactly the bytes and the length *)
(* that the buffer of the web server held when the request object was      *)
(* constructed.                                                            *)
C11_OwnCopyOfPayload ==
    lastCall.called =>
        /\ lastCall.data = lastCall.src
        /\ lastCall.len = Len(lastCall.src)

\* Whenever the copy was allocated, the handler gets the bytes of the
\* construction, whatever the buffer holds by then.
CopiedPayloadIntact ==
    /\ lastCall.called /\ lastCall.data # NullData => lastCall.data = lastCall.src
    /\ \A i \in 1..Len(chunkQueue) :
           chunkQueue[i].m_data # NullData => chunkQueue[i].m_data = chunkQueue[i].src

(* C12: once the handler has run for the final chunk without an error, the  *)
(* bytes written by the update are the sum of the lengths of the chunks    *)
(* that were received.                                                     *)
C12_WrittenIsSumOfChunks ==
    (lastCall.called /\ lastCall.final /\ ~gIsUploadError /\ ~updateRunning)
        => bytesWritten = wireOffset

\* The handler is called for the chunks in the order of their offsets.
ChunksInOrder ==
    [][lastCall' # lastCall /\ lastCall.called => lastCall'.index > lastCall.index]_vars

(* C30: the upload is reported as successful, the upload page has answered *)
(* 'Ok' and has scheduled the restart, only if no chunk that was received  *)
(* was rejected at the queue and all bytes received were written; after a  *)
(* chunk was rejected because the queue was full there is no such report.  *)
C30_OkOnlyIfAllChunksWritten ==
    (uploadPhase = "answered" /\ "Ok" \in uploadReplies /\ restartRequested)
        => /\ ~insufficient
           /\ ~queueFull
           /\ bytesWritten = wireOffset

\* The part of it about the full queue alone.
FullQueueNeverOk ==
    queueFull => ~(uploadPhase = "answered" /\ "Ok" \in uploadReplies)

\* The upload page answers 'Error' whenever the handler has set the error
\* flag, and only then.
UploadPageFollowsErrorFlag ==
    uploadPhase = "answered" =>
        /\ gIsUploadError => uploadReplies \cap {"Ok", "Error"} = {"Error"}
        /\ ~gIsUploadError => "Ok" \in uploadReplies /\ restartRequested

(* C13: the upload handler is never called with a request whose connection *)
(* was closed, and whose object was released, after it was queued.         *)
C13_RequestStillValid ==
    lastCall.called => lastCall.valid

(***************************************************************************)
(* The settings store and the filesystem.                                  *)
(***************************************************************************)
(* C16: a handler of a web request that has the settings store or a file   *)
(* open runs in the main loop, as a request taken from the queue.          *)
C16_HandlersDeferred ==
    \A t \in PluginTasks :
        (running[t].handler \in WebHandlers /\ running[t].access # "none")
            => t = MainLoop /\ running[t].deferred

(* C17: no two tasks have the settings store open at the same time.        *)
C17_SettingsNotShared ==
    \A t1, t2 \in PluginTasks :
        (running[t1].access = "settings" /\ running[t2].access = "settings") => t1 = t2

\* The configuration file of the plugin is only accessed by the holder of
\* the plugin's mutex.
ConfigFileUnderLock ==
    \A t \in PluginTasks : running[t].access = "config" => mutexHolder = t

(***************************************************************************)
(* The settings page.                                                      *)
(***************************************************************************)
\* The setting at index i of the list is in the last POST and its value
\* fails the validation of its type.
FailsValidation(i) ==
    LET parameter == SettingsList[i]
        value == postReq.args[parameter.key]
    IN  /\ parameter.key \in postReq.present
        /\ CASE parameter.type = "STRING" ->
                    \/ parameter.key = "hostname" /\ ~isValidHostname(value)
                    \/ Len(value) < parameter.min
                    \/ Len(value) > parameter.max
             [] parameter.type = "JSON" ->
                    Len(value) < parameter.min \/ Len(value) > parameter.max
             [] parameter.type = "BOOL" -> value \notin {"true", "false"}
             [] parameter.type = "UINT8" ->
                    \/ ~AllDigits(value)
                    \/ DigitsValue(value) > 255
                    \/ DigitsValue(value) < parameter.min
                    \/ DigitsValue(value) > parameter.max
             [] parameter.type = "INT32" ->
                    \/ ~strToInt32(value).convStatus
                    \/ strToInt32(value).value < parameter.min
                    \/ strToInt32(value).value > parameter.max
             [] OTHER -> TRUE

(* C21: if a value of a settings POST fails validation, the answer is a    *)
(* JSON document with status 1 and an error object, the setting keeps the  *)
(* value it had, and storeSetting is not called for any setting later in   *)
(* the list, which all keep their values too.                              *)
C21_RejectedNotStored ==
    \A i \in 1..KEY_VALUE_PAIR_NUM :
        (rsp.sent /\ FailsValidation(i)) =>
            /\ rsp.status = 1
            /\ rsp.error # ""
            /\ stored[SettingsList[i].key] = before[SettingsList[i].key]
            /\ \A j \in (i + 1)..KEY_VALUE_PAIR_NUM :
                   /\ j \notin processed
                   /\ stored[SettingsList[j].key] = before[SettingsList[j].key]

C21_Witness ==
    /\ rsp = [status |-> 1, error |-> "Internal error.", sent |-> TRUE]
    /\ postReq.present = {"hostname", "uint8", "json"}
    /\ postReq.args.uint8 = <<"3", "0", "0">>
    /\ postReq.args.json = <<"a", "a">>
    /\ stored.hostname = <<"a", "7">>
    /\ stored.uint8 = 1
    /\ stored.json = <<"a">>
    /\ processed = {1, 3}

\* RFC952 as the claim states it.
Rfc952(str) ==
    /\ Len(str) >= MIN_HOSTNAME_LENGTH
    /\ Len(str) <= MAX_HOSTNAME_LENGTH
    /\ \A i \in 1..Len(str) : IsDigit(str[i]) \/ IsUpper(str[i]) \/ IsLower(str[i]) \/ str[i] = "-"
    /\ IsUpper(str[1]) \/ IsLower(str[1])
    /\ str[Len(str)] # "-"

(* C22: isValidHostname returns true exactly for the strings within the    *)
(* length limits that consist of letters, digits and '-', start with a     *)
(* letter and do not end with '-'.                                         *)
C22_Rfc952 ==
    checked => (isValid <=> Rfc952(hostname))

\* What isValidHostname does decide: as RFC952, but for the last character.
C22_AllButLastChar ==
    checked =>
        (isValid <=> /\ Len(hostname) >= MIN_HOSTNAME_LENGTH
                     /\ Len(hostname) <= MAX_HOSTNAME_LENGTH
                     /\ \A i \in 1..Len(hostname) :
                            \/ IsDigit(hostname[i])
                            \/ IsUpper(hostname[i])
                            \/ IsLower(hostname[i])
                            \/ hostname[i] = "-"
                     /\ IsUpper(hostname[1]) \/ IsLower(hostname[1]))

(***************************************************************************)
(* Bitmap widgets.                                                         *)
(***************************************************************************)
Alive == {w \in WidgetIds : widgets[w].life = "alive"}

\* Width, height and pixels of a widget.
View(w) == [width |-> get(w).width, height |-> get(w).height, pixels |-> get(w).pixels]

\* Every widget has its own array, and the array exists.
OwnBuffers ==
    /\ \A w \in Alive :
           widgets[w].m_buffer # NullBuffer => colorHeap[widgets[w].m_buffer].allocated
    /\ \A w, v \in Alive :
           (w # v /\ widgets[w].m_buffer # NullBuffer)
               => widgets[w].m_buffer # widgets[v].m_buffer

\* A step changes what is seen of the widget it is made on and of no other.
OthersUntouched ==
    [][\A w \in WidgetIds :
           (widgets[w].life = "alive" /\ widgetOp'.dst # w) => View(w)' = View(w)]_vars

C24_NeverPartial ==
    \A w \in Alive :
        \/ /\ widgets[w].m_buffer # NullBuffer
           /\ widgets[w].m_bufferSize = widgets[w].m_width * widgets[w].m_height
           /\ Len(colorHeap[widgets[w].m_buffer].data) = widgets[w].m_bufferSize
        \/ /\ widgets[w].m_buffer = NullBuffer
           /\ widgets[w].m_bufferSize = 0
           /\ widgets[w].m_width = 0
           /\ widgets[w].m_height = 0

(***************************************************************************)
(* The system state machine.                                               *)
(***************************************************************************)
\* A tick has run since the device started.
Ticked == sysCalls # <<>>

\* The calls of a tick that makes the requested state, to, the current one.
TransitionCalls(from, to) ==
    (IF from = "none" THEN <<>> ELSE <<Call("exit", from)>>)
        \o <<Call("entry", to), Call("process", to)>>

(* C25: at every tick the state machine has exactly one current state, and *)
(* the tick ends with the process() of that state: a state requested in    *)
(* process() becomes the current one with the next tick, not before. That  *)
(* tick calls exit() of the old state once, then entry() of the new state  *)
(* once, then process() of the new state for the first time.               *)
C25_TransitionOnNextTick ==
    /\ [](Ticked =>
            /\ m_currentState \in SysStates
            /\ sysCalls[Len(sysCalls)] = Call("process", m_currentState)
            /\ \A s \in SysStates :
                   /\ entryCalls[s] = exitCalls[s] + (IF s = m_currentState THEN 1 ELSE 0)
                   /\ entryCalls[s] <= 1
                   /\ processCalls[s] > 0 => entryCalls[s] = 1)
    /\ [][sysBoots' = sysBoots =>
            /\ m_nextState # "none" =>
                   /\ m_currentState' = m_nextState
                   /\ sysCalls' = TransitionCalls(m_currentState, m_nextState)
                   /\ processCalls[m_nextState] = 0
                   /\ processCalls'[m_nextState] = 1
            /\ m_nextState = "none" =>
                   /\ m_currentState' = m_currentState
                   /\ sysCalls' = <<Call("process", m_currentState)>>]_vars

\* The tick after the station has connected: exit() of the connecting state,
\* entry() and the first process() of the running state.
C25_Witness ==
    /\ m_currentState = "Running"
    /\ sysCalls = <<Call("exit", "ConnectingSTA"), Call("entry", "Running"),
                    Call("process", "Running")>>
    /\ exitCalls["ConnectingSTA"] = 1
    /\ processCalls["Running"] = 1

\* The transitions of the system state machine.
SysEdges ==
    {<<"Init", "ProvisionAP">>, <<"Init", "ConnectingSTA">>, <<"Init", "Error">>,
     <<"ConnectingSTA", "Running">>, <<"Running", "Updating">>}

(* C26: the first state is Init. From there the provisioning access point  *)
(* follows exactly if the button was held during start up, the connecting  *)
(* state if it was not, and the error state exactly if the initialization  *)
(* failed. The running state is entered from the connecting state only,    *)
(* and the error state is never left.                                      *)
C26_BootPath ==
    /\ [](/\ Len(sysPath) >= 1 => sysPath[1] = "Init"
          /\ Len(sysPath) >= 2 =>
                 /\ bootInput.read
                 /\ sysPath[2] = "Error" <=> ~bootInput.initOk
                 /\ sysPath[2] = "ProvisionAP" <=> (bootInput.initOk /\ bootInput.button)
                 /\ sysPath[2] = "ConnectingSTA" <=> (bootInput.initOk /\ ~bootInput.button)
          /\ \A i \in 1..Len(sysPath) :
                 /\ i > 1 => <<sysPath[i - 1], sysPath[i]>> \in SysEdges
                 /\ sysPath[i] = "Running" => i > 1 /\ sysPath[i - 1] = "ConnectingSTA"
          /\ m_currentState = "Error" => m_nextState = "none")
    /\ [][m_currentState = "Error" => m_currentState' = "Error"]_vars

\* The device runs, with the button not held, and was connecting before.
C26_Witness ==
    /\ m_currentState = "Running"
    /\ sysPath = <<"Init", "ConnectingSTA", "Running">>
    /\ ~bootInput.button

\* The error state after a failed initialization, ticked more than once.
ErrorStays ==
    /\ m_currentState = "Error"
    /\ processCalls["Error"] > 1

(***************************************************************************)
(* The slots of the display.                                               *)
(***************************************************************************)
ActiveSlots == {s \in Slots : slotState[s] = "Active"}

\* The scheduler has called fn for the plugin of slot s in its last run.
Called(fn, s) == \E i \in 1..Len(slotCalls) : slotCalls[i] = SlotCall(fn, s)

\* The last run of the scheduler: a rotation starts with inactive() of the
\* outgoing and active() of the incoming plugin and the fade between the
\* two; every plugin got process(), only the active one update().
SchedulerRun ==
    slotOp = "process" =>
        /\ \A i \in 1..Len(slotCalls) :
               slotCalls[i].fn = "inactive" =>
                   /\ i = 1
                   /\ Len(slotCalls) >= 2
                   /\ slotCalls[2].fn = "active"
                   /\ slotState[slotCalls[1].slot] = "Inactive"
                   /\ slotState[slotCalls[2].slot] = "Active"
                   /\ fade = [from |-> slotCalls[1].slot, to |-> slotCalls[2].slot,
                              step |-> 0]
        /\ \A s \in Slots :
               /\ slotState[s] # "Empty" => Called("process", s)
               /\ slotState[s] # "Active" => ~Called("update", s)
               /\ slotState[s] = "Active" => Called("update", s)

\* The active slot changes from one plugin to another on the expiry of the
\* rotation timer only.
RotationOnExpiry ==
    [][(ActiveSlot(slotState) # 0 /\ ActiveSlot(slotState') # 0
            /\ ActiveSlot(slotState') # ActiveSlot(slotState))
        => /\ rotationTimer = "expired"
           /\ slotCalls'[1] = SlotCall("inactive", ActiveSlot(slotState))
           /\ slotCalls'[2] = SlotCall("active", ActiveSlot(slotState'))]_vars

C27_UpdateEndsInRestart ==
    /\ updStarted = resets =>
           /\ m_updateIsRunning
           /\ otaState = "update"
           /\ lastCallback.fn \in {"onStart", "onProgress"}
    /\ lastCallback.fn \in {"onEnd", "onError"} =>
           /\ ~lastCallback.running
           /\ resets = lastCallback.boot + 1
           /\ ~m_updateIsRunning

\* An update that started has ended, once with onEnd and once with onError.
C27_Witness ==
    /\ updStarted = 0
    /\ resets = 1
    /\ lastCallback.fn = "onEnd"
    /\ ~m_updateIsRunning

(***************************************************************************)
(* The configuration file of the plugin.                                   *)
(***************************************************************************)
\* The step is the critical section of SunrisePlugin::start.
StartStep ==
    /\ method[MainLoop] = "start"
    /\ at[MainLoop] = "body"
    /\ at'[MainLoop] = "unlock"

AccessesShared(t) == at[t] \in {"flag", "body"}

\* Task t called lock() and waits for another task to give the mutex back.
WaitsForLock(t) ==
    /\ at[t] = "lock"
    /\ m_xMutex # "nullptr"
    /\ mutexHolder \notin {NoTask, t}

(* C7: every read or write of the plugin's shared fields, by the main loop, *)
(* the web handler or the HTTP response callback, is made by the task that  *)
(* holds the plugin's mutex, so that no two tasks are at such an access at  *)
(* the same time.                                                           *)
C7_AccessUnderLock ==
    /\ \A t \in PluginTasks : AccessesShared(t) => mutexHolder = t
    /\ \A t, u \in PluginTasks : AccessesShared(t) /\ AccessesShared(u) => t = u

\* The tasks that are between lock() and unlock().
InCriticalSection == {t \in PluginTasks : at[t] \in {"body", "unlock"}}

(* C29: the lock is held exactly by the task that is between lock() and     *)
(* unlock() of a method, with recursion count 1; once every started        *)
(* operation has returned no task holds the lock and the count is zero.    *)
C29_LockBalanced ==
    /\ \A t \in PluginTasks : mutexHolder = t <=> t \in InCriticalSection
    /\ mutexCount = Cardinality(InCriticalSection)
    /\ (\A t \in PluginTasks : at[t] = "idle") => mutexHolder = NoTask /\ mutexCount = 0

C29_Witness ==
    /\ \A t \in PluginTasks : at[t] = "idle"
    /\ plugin = "started"
    /\ m_relevantResponsePart # ""
    /\ m_location # DefaultLocation
    /\ configFile = m_location
    /\ mutexHolder = NoTask
    /\ mutexCount = 0

C9_OnlyQueueBlocks == ~WaitsForLock(MainLoop)

(* C9, amended: the main loop waits in two places only. In getItem it waits *)
(* at most WAIT_TIME ticks and then returns; in lock() it waits without a   *)
(* timeout, and then the holder of the mutex is inside its critical         *)
(* section, does not wait itself and can go on to give the mutex back.      *)
(* Inside its own critical section the main loop can always go on.          *)
C9_BoundedQueueOrLock ==
    /\ mainPc = "getItemWait" =>
           /\ at[MainLoop] = "idle"
           /\ waited[MainLoop] <= WAIT_TIME
           /\ waited[MainLoop] = WAIT_TIME => ENABLED GetItemTimeout
    /\ WaitsForLock(MainLoop) =>
           /\ mainPc = "idle"
           /\ at[mutexHolder] \in {"body", "unlock"}
           /\ \E t \in PluginTasks : t = mutexHolder /\ ENABLED TaskStep(t)
    /\ at[MainLoop] \in {"body", "unlock"} => ENABLED TaskStep(MainLoop)

C9_Witness == WaitsForLock(MainLoop) /\ mutexHolder = HttpTask /\ at[HttpTask] = "unlock"

(***************************************************************************)
(* The upload.                                                             *)
(***************************************************************************)
(* C10: once the final chunk of an upload that failed (Update.begin failed, *)
(* a write was short, or Update.end failed) has been handled, the update is *)
(* not running, the filesystem is mounted and the client was answered       *)
(* 'Upload aborted.'.                                                       *)
C10_FailedUploadAborted ==
    (uploadPhase \in {"finished", "answered"} /\ gIsUploadError) =>
        /\ ~updateRunning
        /\ spiffsMounted
        /\ "Upload aborted." \in uploadReplies

(***************************************************************************)
(* Uploads of several clients.                                             *)
(***************************************************************************)
(* C31: uploadPage schedules the restart for the request of a client only  *)
(* if no call of uploadHandler for the upload of that client has failed or *)
(* has aborted the update.                                                 *)
C31_RestartOnlyWithoutError ==
    \A c \in Clients : (client[c].paged /\ client[c].restart) => ~client[c].failed

\* With one upload at a time the restart is scheduled for an upload without
\* a failed call only.
OneUploadRestartOnlyWithoutError ==
    (\A c \in Clients : c # 1 => client[c] = NoUpload)
        => ((client[1].paged /\ client[1].restart) => ~client[1].failed)

(* C34: the request of an upload gets at most one response: of the answers *)
(* of uploadHandler ('Upload aborted.') and of uploadPage ('Ok', 'Error')  *)
(* at most one is sent on the request of a client.                         *)
C34_AtMostOneResponse ==
    \A c \in Clients : client[c].sends <= 1

\* uploadPage answers the request of a client once.
PageAnswersOnce ==
    [][\A c \in Clients :
           client[c].paged => client'[c].paged /\ client'[c].sends = client[c].sends]_vars

(***************************************************************************)
(* The progress display of an upload.                                      *)
(***************************************************************************)
(* C33: once the final chunk of an upload has been handled, the progress   *)
(* that beginProgress switched on has been switched off by endProgress,    *)
(* and endProgress is called while an update runs that has switched the    *)
(* progress on, never else.                                                *)
C33_ProgressBracketed ==
    /\ uploadPhase \in {"finished", "answered"} => ~progressShown
    /\ updateRunning => progressShown

\* endProgress is called in the branches that find Update.isRunning() only,
\* and a running update has called beginProgress.
RunningShowsProgress == updateRunning => progressShown

\* An upload that ends without an error has switched the progress off.
GoodUploadEndsProgress ==
    (uploadPhase \in {"finished", "answered"} /\ ~gIsUploadError /\ ~updateRunning)
        => ~progressShown

(***************************************************************************)
(* The filesystem during an upload.                                        *)
(***************************************************************************)
(* C32: no handler reads or writes a file while the filesystem is          *)
(* unmounted for the upload of a filesystem image.                         *)
C32_NoAccessWhileUnmounted ==
    fsAccess.by # "none" => fsAccess.mounted

\* The filesystem is unmounted by the first chunk of a filesystem image
\* only.
UnmountedByFilesystemUpload ==
    ~spiffsMounted =>
        \E c \in Clients : client[c].index > 0 /\ client[c].file = FILESYSTEM_FILENAME
\* C35: in any sequence of start, setLocation, getLocation and stop on one
\* plugin instance getLocation returns the location of the last setLocation
\* (the default before the first), a start keeps that location, and a
\* setLocation with the location the plugin already has writes no file.
C35_LocationKept ==
    /\ pluginCall.op = "getLocation" => pluginCall.result = pluginCall.set
    /\ pluginCall.op = "start" => m_location = pluginCall.set
    /\ (pluginCall.op = "setLocation" /\ ~pluginCall.changed) => ~pluginCall.wrote

\* Right after setLocation the plugin has the location that was set, and a
\* call with the location it already had wrote no file.
SetLocationTakesOver ==
    pluginCall.op = "setLocation" =>
        /\ m_location = pluginCall.set
        /\ ~pluginCall.changed => ~pluginCall.wrote

\* C36: between start() and stop() the request timer of the plugin is
\* running; a process() that sees it expired leaves it started with the long
\* period if the HTTP request was started and with the short period if not,
\* on screen or not; after stop() the timer is stopped and process() starts
\* no request.
C36_TimerRunsWhileStarted ==
    /\ plugin = "started" => m_requestTimer # "stopped"
    /\ plugin = "stopped" => m_requestTimer = "stopped"
    /\ (pluginCall.op = "process" /\ pluginCall.expired) =>
           m_requestTimer = IF pluginCall.request THEN "long" ELSE "short"
    /\ (pluginCall.op = "process" /\ plugin # "started") =>
           ~pluginCall.expired /\ ~pluginCall.request

\* process() found the timer expired, could not start the request and
\* started the timer with the short period, while the plugin is off screen.
C36_RetryAfterFailedRequest ==
    /\ plugin = "started"
    /\ pluginCall.op = "process"
    /\ pluginCall.expired
    /\ ~pluginCall.request
    /\ m_requestTimer = "short"
    /\ ~m_iconCanvas

\* C37: in settingsPage, getSettingsData, getSSID, the captive portal handler
\* and addCurrentTimezoneValues a successful Settings::open is followed by
\* exactly one close before the function returns, also when a value was
\* rejected, and close is not called after an open that failed.
C37_SettingsBracketed ==
    \A t \in PluginTasks :
        LET u == settingsUse[t]
        IN  /\ u.closes <= u.opens
            /\ u.opens <= 1
            /\ u.pc = "return" => u.closes = u.opens
            /\ u.failed => u.opens = 0 /\ u.closes = 0

\* settingsPage returns after a rejected value with the store closed once,
\* while the open of addCurrentTimezoneValues has failed.
C37_ClosedAfterRejectedValue ==
    /\ settingsUse[MainLoop].fn = "settingsPage"
    /\ settingsUse[MainLoop].pc = "return"
    /\ settingsUse[MainLoop].isError
    /\ settingsUse[MainLoop].opens = 1
    /\ settingsUse[MainLoop].closes = 1
    /\ settingsUse[HttpTask].failed
    /\ settingsUse[HttpTask].pc = "return"

PercentOfNonZeroTotal ==
    (percentCall.fn # "none" /\ ~percentCall.divByZero) =>
        /\ percentCall.shown \in 0..100
        /\ percentCall.shown = percentCall.percent
        /\ percentCall.progress <= 42949672 =>
               /\ ~percentCall.overflow
               /\ percentCall.percent * (percentCall.total \div 100) <= percentCall.progress
               /\ percentCall.progress = percentCall.total => percentCall.percent = 100

\* The members of the two requests are equal, and each payload is in an
\* array of its own object.
SameRequest(t, o) ==
    /\ [t EXCEPT !.m_array = NullPtr] = [o EXCEPT !.m_array = NullPtr]
    /\ t.m_array = NullPtr <=> o.m_array = NullPtr
    /\ t.m_array # NullPtr => t.m_array # o.m_array

\* C39: after the assignment of one deferred request to another of its kind
\* the target equals the source in every member, the payload in an array of
\* its own with the same length, and the source is as before; an assignment
\* of a request to itself changes nothing.
C39_AssignMakesEqual ==
    lastAssign.op = "assign" =>
        IF lastAssign.dst = lastAssign.src
        THEN reqObjects = lastAssign.before
        ELSE /\ reqObjects[lastAssign.src] = lastAssign.before[lastAssign.src]
             /\ IF reqObjects[lastAssign.dst].kind = "page"
                THEN reqObjects[lastAssign.dst] = reqObjects[lastAssign.src]
                ELSE SameRequest(reqObjects[lastAssign.dst], reqObjects[lastAssign.src])

\* After an assignment the source is as before; the members of the derived
\* class are those of the source if the array for the payload was allocated;
\* m_request of the target is what it was; a request assigned to itself is
\* unchanged.
AssignCopiesOwnMembers ==
    lastAssign.op = "assign" =>
        IF lastAssign.dst = lastAssign.src
        THEN reqObjects = lastAssign.before
        ELSE LET t == reqObjects[lastAssign.dst]
                 o == reqObjects[lastAssign.src]
                 asSource == [t EXCEPT !.m_request = o.m_request]
             IN  /\ o = lastAssign.before[lastAssign.src]
                 /\ t.m_request = lastAssign.before[lastAssign.dst].m_request
                 /\ t.kind = "page" => asSource = o
                 /\ (t.kind # "page" /\ lastAssign.allocOk) => SameRequest(asSource, o)

====
